-------------------------------- MODULE Spec2Model --------------------------------
(***************************************************************************)
(* Root-cause inference pipeline of the AIOps agent                         *)
(* (src/inference_engine.py, class LogicalRCA) together with the shared     *)
(* rate limiter and response cache it drives (src/rate_limiter.py, class    *)
(* GlobalRateLimiter).                                                      *)
(*                                                                         *)
(* Text is modelled character by character: a Python str is the tuple of    *)
(* its characters (CharTable), so that lower(), " ".join(), the `in`        *)
(* substring test and the re.sub calls of _sanitize_text are computed, not  *)
(* assumed.  Probabilities are integers in hundredths (0.9 is 90), times    *)
(* are integers in tenths of a second (60 s is 600).                        *)
(***************************************************************************)
EXTENDS Integers, Sequences, FiniteSets, TLC

(***************************************************************************)
(* Python str values used by the model, as character tuples.  An element    *)
(* "=*N" stands for a run of N filler characters "=" (a long log line): a   *)
(* run-length encoding, so that a message of several hundred kilobytes can  *)
(* be written down; BlockLen gives the length of an element.                *)
(***************************************************************************)
CharTable ==
    "Connection Lost" :> <<"C","o","n","n","e","c","t","i","o","n"," ","L","o","s","t">> @@
    "Device Down" :> <<"D","e","v","i","c","e"," ","D","o","w","n">> @@
    "Power Supply 1 Failed" :> <<"P","o","w","e","r"," ","S","u","p","p","l","y"," ","1"," ","F","a","i","l","e","d">> @@
    "Power Supply: Dual Loss (Device Down)" :> <<"P","o","w","e","r"," ","S","u","p","p","l","y",":"," ","D","u","a","l"," ","L","o","s","s"," ","(","D","e","v","i","c","e"," ","D","o","w","n",")">> @@
    "Fan Fail" :> <<"F","a","n"," ","F","a","i","l">> @@
    "High Temperature" :> <<"H","i","g","h"," ","T","e","m","p","e","r","a","t","u","r","e">> @@
    "Memory High" :> <<"M","e","m","o","r","y"," ","H","i","g","h">> @@
    "Out of Memory" :> <<"O","u","t"," ","o","f"," ","M","e","m","o","r","y">> @@
    "BGP Flapping" :> <<"B","G","P"," ","F","l","a","p","p","i","n","g">> @@
    "Link Down" :> <<"L","i","n","k"," ","D","o","w","n">> @@
    "Host Unreachable" :> <<"H","o","s","t"," ","U","n","r","e","a","c","h","a","b","l","e">> @@
    "Heartbeat Loss" :> <<"H","e","a","r","t","b","e","a","t"," ","L","o","s","s">> @@
    "PSU 2 fail" :> <<"P","S","U"," ","2"," ","f","a","i","l">> @@
    "login password 7 Overheat" :> <<"l","o","g","i","n"," ","p","a","s","s","w","o","r","d"," ","7"," ","O","v","e","r","h","e","a","t">> @@
    "username admin secret 7 oom" :> <<"u","s","e","r","n","a","m","e"," ","a","d","m","i","n"," ","s","e","c","r","e","t"," ","7"," ","o","o","m">> @@
    "snmp-server community fanfail" :> <<"s","n","m","p","-","s","e","r","v","e","r"," ","c","o","m","m","u","n","i","t","y"," ","f","a","n","f","a","i","l">> @@
    "Power Supply: Dual Loss" :> <<"P","o","w","e","r"," ","S","u","p","p","l","y",":"," ","D","u","a","l"," ","L","o","s","s">> @@
    "Dual Loss" :> <<"D","u","a","l"," ","L","o","s","s">> @@
    "Thermal Shutdown" :> <<"T","h","e","r","m","a","l"," ","S","h","u","t","d","o","w","n">> @@
    "power supply" :> <<"p","o","w","e","r"," ","s","u","p","p","l","y">> @@
    "failed" :> <<"f","a","i","l","e","d">> @@
    "dual" :> <<"d","u","a","l">> @@
    "psu" :> <<"p","s","u">> @@
    "fail" :> <<"f","a","i","l">> @@
    "fan fail" :> <<"f","a","n"," ","f","a","i","l">> @@
    "fan" :> <<"f","a","n">> @@
    "high temperature" :> <<"h","i","g","h"," ","t","e","m","p","e","r","a","t","u","r","e">> @@
    "overheat" :> <<"o","v","e","r","h","e","a","t">> @@
    "thermal" :> <<"t","h","e","r","m","a","l">> @@
    "memory high" :> <<"m","e","m","o","r","y"," ","h","i","g","h">> @@
    "memory leak" :> <<"m","e","m","o","r","y"," ","l","e","a","k">> @@
    "out of memory" :> <<"o","u","t"," ","o","f"," ","m","e","m","o","r","y">> @@
    "oom" :> <<"o","o","m">> @@
    "killed process" :> <<"k","i","l","l","e","d"," ","p","r","o","c","e","s","s">> @@
    "interface down" :> <<"i","n","t","e","r","f","a","c","e"," ","d","o","w","n">> @@
    "link down" :> <<"l","i","n","k"," ","d","o","w","n">> @@
    "bgp flapping" :> <<"b","g","p"," ","f","l","a","p","p","i","n","g">> @@
    "bgp peer down" :> <<"b","g","p"," ","p","e","e","r"," ","d","o","w","n">> @@
    "connection lost" :> <<"c","o","n","n","e","c","t","i","o","n"," ","l","o","s","t">> @@
    "port down" :> <<"p","o","r","t"," ","d","o","w","n">> @@
    "unreachable" :> <<"u","n","r","e","a","c","h","a","b","l","e">> @@
    "encrypted-password" :> <<"e","n","c","r","y","p","t","e","d","-","p","a","s","s","w","o","r","d">> @@
    "password" :> <<"p","a","s","s","w","o","r","d">> @@
    "secret" :> <<"s","e","c","r","e","t">> @@
    "username" :> <<"u","s","e","r","n","a","m","e">> @@
    "snmp-server community" :> <<"s","n","m","p","-","s","e","r","v","e","r"," ","c","o","m","m","u","n","i","t","y">> @@
    "********" :> <<"*","*","*","*","*","*","*","*">> @@
    "PSU" :> <<"P","S","U">> @@
    "HA" :> <<"H","A">> @@
    "1" :> <<"1">> @@
    "2" :> <<"2">> @@
    "3" :> <<"3">> @@
    "two" :> <<"t","w","o">> @@
    "GREEN" :> <<"G","R","E","E","N">> @@
    "NORMAL" :> <<"N","O","R","M","A","L">> @@
    "YELLOW" :> <<"Y","E","L","L","O","W">> @@
    "WARNING" :> <<"W","A","R","N","I","N","G">> @@
    "CRITICAL" :> <<"C","R","I","T","I","C","A","L">> @@
    "green" :> <<"g","r","e","e","n">> @@
    "unknown" :> <<"u","n","k","n","o","w","n">> @@
    "0123456789" :> <<"0","1","2","3","4","5","6","7","8","9">> @@
    "ABCDEFGHIJKLMNOPQRSTUVWXYZ" :> <<"A","B","C","D","E","F","G","H","I","J","K","L","M","N","O","P","Q","R","S","T","U","V","W","X","Y","Z">> @@
    "abcdefghijklmnopqrstuvwxyz" :> <<"a","b","c","d","e","f","g","h","i","j","k","l","m","n","o","p","q","r","s","t","u","v","w","x","y","z">> @@
    "CORE" :> <<"C","O","R","E">> @@
    "SW1" :> <<"S","W","1">> @@
    "AP1" :> <<"A","P","1">> @@
    "AP2" :> <<"A","P","2">> @@
    "AP3" :> <<"A","P","3">> @@
    "AP4" :> <<"A","P","4">> @@
    "X9" :> <<"X","9">> @@
    "API key not configured. Manual analysis required." :> <<"A","P","I"," ","k","e","y"," ","n","o","t"," ","c","o","n","f","i","g","u","r","e","d","."," ","M","a","n","u","a","l"," ","a","n","a","l","y","s","i","s"," ","r","e","q","u","i","r","e","d",".">> @@
    "manual analysis required" :> <<"m","a","n","u","a","l"," ","a","n","a","l","y","s","i","s"," ","r","e","q","u","i","r","e","d">> @@
    "No analysis result from AI" :> <<"N","o"," ","a","n","a","l","y","s","i","s"," ","r","e","s","u","l","t"," ","f","r","o","m"," ","A","I">> @@
    "no analysis result" :> <<"n","o"," ","a","n","a","l","y","s","i","s"," ","r","e","s","u","l","t">> @@
    "AI Analysis Failed" :> <<"A","I"," ","A","n","a","l","y","s","i","s"," ","F","a","i","l","e","d">> @@
    "429 Resource has been exhausted" :> <<"4","2","9"," ","R","e","s","o","u","r","c","e"," ","h","a","s"," ","b","e","e","n"," ","e","x","h","a","u","s","t","e","d">> @@
    "Deadline exceeded" :> <<"D","e","a","d","l","i","n","e"," ","e","x","c","e","e","d","e","d">> @@
    "500 Failed to generate" :> <<"5","0","0"," ","F","a","i","l","e","d"," ","t","o"," ","g","e","n","e","r","a","t","e">> @@
    "Rate limit exceeded" :> <<"R","a","t","e"," ","l","i","m","i","t"," ","e","x","c","e","e","d","e","d">> @@
    "429" :> <<"4","2","9">> @@
    "503" :> <<"5","0","3">> @@
    "overloaded" :> <<"o","v","e","r","l","o","a","d","e","d">> @@
    "rate" :> <<"r","a","t","e">> @@
    "ai analysis failed" :> <<"a","i"," ","a","n","a","l","y","s","i","s"," ","f","a","i","l","e","d">> @@
    "oracle reason" :> <<"o","r","a","c","l","e"," ","r","e","a","s","o","n">> @@
    "" :> <<>> @@
    "Trace dump A (250k)" :> <<"T","r","a","c","e"," ","A"," ","=*250000">> @@
    "Trace dump B (250k)" :> <<"T","r","a","c","e"," ","B"," ","=*250000">> @@
    "Trace dump (480k)" :> <<"T","r","a","c","e"," ","=*480000">>

Chars(s) == CharTable[s]

BlockLen(c) ==
    CASE c = "=*250000" -> 250000
      [] c = "=*480000" -> 480000
      [] OTHER -> 1

UpperLetters == <<"A","B","C","D","E","F","G","H","I","J","K","L","M",
                  "N","O","P","Q","R","S","T","U","V","W","X","Y","Z">>
LowerLetters == <<"a","b","c","d","e","f","g","h","i","j","k","l","m",
                  "n","o","p","q","r","s","t","u","v","w","x","y","z">>
LowerMap == [c \in {UpperLetters[i] : i \in 1..26} |->
                LowerLetters[CHOOSE i \in 1..26 : UpperLetters[i] = c]] @@ <<>>
UpperMap == [c \in {LowerLetters[i] : i \in 1..26} |->
                UpperLetters[CHOOSE i \in 1..26 : LowerLetters[i] = c]] @@ <<>>

\* str.lower() and str.upper(), one character
LowerChar(c) == IF c \in DOMAIN LowerMap THEN LowerMap[c] ELSE c
UpperChar(c) == IF c \in DOMAIN UpperMap THEN UpperMap[c] ELSE c

\* (the leading <<>> \o only makes TLC build the tuple once)
ToLower(s) == <<>> \o [i \in 1..Len(s) |-> LowerChar(s[i])]
ToUpper(s) == <<>> \o [i \in 1..Len(s) |-> UpperChar(s[i])]

\* s[i:i+len(lit)] == lit  (1-based i)
StartsAt(s, i, lit) ==
    /\ i >= 1
    /\ i + Len(lit) - 1 <= Len(s)
    /\ \A k \in 1..Len(lit) : s[i + k - 1] = lit[k]

\* Python's `p in s` on str
Contains(p, s) == \E i \in 1..(Len(s) - Len(p) + 1) : StartsAt(s, i, p)

RECURSIVE JoinFrom(_, _, _)
JoinFrom(sep, list, i) ==
    IF i > Len(list) THEN <<>>
    ELSE IF i = Len(list) THEN list[i]
    ELSE list[i] \o sep \o JoinFrom(sep, list, i + 1)

\* sep.join(list)
Join(sep, list) == JoinFrom(sep, list, 1)

Max(S) == CHOOSE x \in S : \A y \in S : y <= x
Min(S) == CHOOSE x \in S : \A y \in S : x <= y

(***************************************************************************)
(* _sanitize_text: four re.sub calls.  Each pattern is matched the way      *)
(* Python's re matches it (greedy \s+, \S+ and [^"]+, no IGNORECASE); none  *)
(* of the four has a second way to match at a position, so a match at i is  *)
(* described by where it ends.                                              *)
(***************************************************************************)
IsSpace(c) == c \in {" ", "\t", "\n"}
IsDigit(c) == c \in {"0","1","2","3","4","5","6","7","8","9"}
NotSpace(c) == ~IsSpace(c)
NotQuote(c) == c # "\""

\* c is of the class \s, \S or [^"]
InClass(c, class) ==
    CASE class = "space" -> IsSpace(c)
      [] class = "notspace" -> NotSpace(c)
      [] class = "notquote" -> NotQuote(c)

\* index after the longest run, starting at i, of characters of the class
RunEnd(s, i, class) ==
    Max({j \in i..(Len(s) + 1) : \A k \in i..(j - 1) : InClass(s[k], class)})

Stars == Chars("********")

\* (encrypted-password\s+)"[^"]+"   ->   \1"********"
Re1Match(s, i) ==
    LET lit == Chars("encrypted-password")
        a == i + Len(lit)
        b == RunEnd(s, a, "space")
        c == b + 1
        d == RunEnd(s, c, "notquote")
    IN  IF /\ StartsAt(s, i, lit)
           /\ b > a
           /\ b <= Len(s) /\ s[b] = "\""
           /\ d > c
           /\ d <= Len(s) /\ s[d] = "\""
        THEN [end |-> d + 1,
              repl |-> SubSeq(s, i, b - 1) \o <<"\"">> \o Stars \o <<"\"">>]
        ELSE [end |-> 0, repl |-> <<>>]

\* (password|secret)\s+(\d)\s+\S+   ->   \1 \2 ********
Re2Lit(s, i, lit) ==
    LET a == i + Len(lit)
        b == RunEnd(s, a, "space")
        c == b + 1
        d == RunEnd(s, c, "space")
        e == RunEnd(s, d, "notspace")
    IN  IF /\ StartsAt(s, i, lit)
           /\ b > a
           /\ b <= Len(s) /\ IsDigit(s[b])
           /\ d > c
           /\ e > d
        THEN [end |-> e,
              repl |-> lit \o <<" ", s[b], " ">> \o Stars]
        ELSE [end |-> 0, repl |-> <<>>]

Re2Match(s, i) ==
    IF Re2Lit(s, i, Chars("password")).end > 0
    THEN Re2Lit(s, i, Chars("password"))
    ELSE Re2Lit(s, i, Chars("secret"))

\* (username\s+\S+\s+secret)\s+\d\s+\S+   ->   \1 5 ********
Re3Match(s, i) ==
    LET lit == Chars("username")
        a == i + Len(lit)
        b == RunEnd(s, a, "space")
        c == RunEnd(s, b, "notspace")
        d == RunEnd(s, c, "space")
        e == d + Len(Chars("secret"))
        f == RunEnd(s, e, "space")
        g == f + 1
        h == RunEnd(s, g, "space")
        k == RunEnd(s, h, "notspace")
    IN  IF /\ StartsAt(s, i, lit)
           /\ b > a
           /\ c > b
           /\ d > c
           /\ StartsAt(s, d, Chars("secret"))
           /\ f > e
           /\ f <= Len(s) /\ IsDigit(s[f])
           /\ h > g
           /\ k > h
        THEN [end |-> k,
              repl |-> SubSeq(s, i, e - 1) \o <<" ", "5", " ">> \o Stars]
        ELSE [end |-> 0, repl |-> <<>>]

\* (snmp-server community)\s+\S+   ->   \1 ********
Re4Match(s, i) ==
    LET lit == Chars("snmp-server community")
        a == i + Len(lit)
        b == RunEnd(s, a, "space")
        c == RunEnd(s, b, "notspace")
    IN  IF /\ StartsAt(s, i, lit)
           /\ b > a
           /\ c > b
        THEN [end |-> c, repl |-> lit \o <<" ">> \o Stars]
        ELSE [end |-> 0, repl |-> <<>>]

\* a match of the n-th pattern at position i
MatchAt(n, s, i) ==
    CASE n = 1 -> Re1Match(s, i)
      [] n = 2 -> Re2Match(s, i)
      [] n = 3 -> Re3Match(s, i)
      [] n = 4 -> Re4Match(s, i)

\* re.sub(pattern n, repl, s): leftmost non-overlapping matches from position i on
RECURSIVE ReSubFrom(_, _, _)
ReSubFrom(n, s, i) ==
    IF i > Len(s) THEN <<>>
    ELSE LET m == MatchAt(n, s, i)
         IN  IF m.end > 0
             THEN m.repl \o ReSubFrom(n, s, m.end)
             ELSE <<s[i]>> \o ReSubFrom(n, s, i + 1)

ReSub(n, s) == ReSubFrom(n, s, 1)

_sanitize_text(text) == ReSub(4, ReSub(3, ReSub(2, ReSub(1, text))))

(***************************************************************************)
(* Topology.  LogicalRCA.topology is a dict device_id -> node; it is kept   *)
(* here as the sequence of its items (a dict iterates in insertion order),  *)
(* each node a record                                                       *)
(*   [id, parent_id, psu_count, redundancy_type]                            *)
(* where parent_id = "" stands for None (both are falsy in __init__),       *)
(* psu_count is the text of metadata["hw_inventory"]["psu_count"] ("" when  *)
(* the key is absent) and redundancy_type the text of                       *)
(* metadata["redundancy_type"] ("" when absent).                            *)
(***************************************************************************)
NoParent == ""

TopologyIds(topo) == {topo[i].id : i \in 1..Len(topo)}

\* self.topology.get(device_id, {})
_get_device_info(topo, device_id) ==
    IF device_id \in TopologyIds(topo)
    THEN topo[CHOOSE i \in 1..Len(topo) : topo[i].id = device_id]
    ELSE [id |-> device_id, parent_id |-> NoParent,
          psu_count |-> "", redundancy_type |-> ""]

_get_parent_id(topo, device_id) == _get_device_info(topo, device_id).parent_id

\* children_map built in __init__: parent -> [children...] in topology order
children_map(topo) ==
    [p \in {topo[i].parent_id : i \in 1..Len(topo)} \ {NoParent} |->
        LET IsChild(n) == n.parent_id = p
            kids == SelectSeq(topo, IsChild)
        IN  <<>> \o [i \in 1..Len(kids) |-> kids[i].id]] @@ <<>>

\* int(x) of a psu_count text: -1 stands for the ValueError/TypeError of int()
IntOf(text) ==
    CASE text = "0" -> 0 [] text = "1" -> 1 [] text = "2" -> 2
      [] text = "3" -> 3 [] text = "4" -> 4 [] OTHER -> -1

\* a variant that ignores the metadata
DefaultPsuCount(topo, device_id, default) == default

_get_psu_count(topo, device_id, default) ==
    LET info == _get_device_info(topo, device_id)
    IN  IF info.psu_count # "" /\ IntOf(info.psu_count) # -1
        THEN IntOf(info.psu_count)
        ELSE IF info.redundancy_type # ""
                /\ ToUpper(Chars(info.redundancy_type)) = Chars("PSU")
             THEN 2
             ELSE default

(***************************************************************************)
(* _apply_local_rules.  An AnalysisResult is a record; NoResult stands for  *)
(* the None the method returns when no rule decides.  confidence is in      *)
(* hundredths.  The reason of the PSU rule is kept without the psu_count    *)
(* it interpolates.                                                         *)
(***************************************************************************)
AnalysisResult(device_id, status, reason, impact_type, confidence, from_local_rule) ==
    [device_id |-> device_id, status |-> status, reason |-> reason,
     impact_type |-> impact_type, confidence |-> confidence,
     from_local_rule |-> from_local_rule]

NoResult == AnalysisResult("", "None", "", "", 0, FALSE)

\* the alert messages of the model
AlertTexts ==
    {"Connection Lost", "Device Down", "Power Supply 1 Failed",
     "Power Supply: Dual Loss (Device Down)", "Fan Fail", "High Temperature",
     "Memory High", "Out of Memory", "BGP Flapping", "Link Down",
     "Host Unreachable", "Heartbeat Loss", "PSU 2 fail", "Thermal Shutdown",
     "login password 7 Overheat", "username admin secret 7 oom",
     "snmp-server community fanfail", "Trace dump A (250k)",
     "Trace dump B (250k)", "Trace dump (480k)", ""}

\* _sanitize_text of every alert message of the model, computed once
SanitizedText == [m \in AlertTexts |-> _sanitize_text(Chars(m))] @@ <<>>

\* safe_alerts = [self._sanitize_text(a) for a in alerts]
SafeAlerts(alerts) == <<>> \o [i \in 1..Len(alerts) |-> SanitizedText[alerts[i]]]

\* joined = " ".join(safe_alerts)
Joined(alerts) == Join(<<" ">>, SafeAlerts(alerts))

critical_patterns ==
    << [pattern |-> "Power Supply: Dual Loss", reason |-> "Device down / dual PSU loss detected (local safety rule)."],
       [pattern |-> "Dual Loss",               reason |-> "Dual power loss detected (local safety rule)."],
       [pattern |-> "Device Down",             reason |-> "Device is completely down (local safety rule)."],
       [pattern |-> "Thermal Shutdown",        reason |-> "Thermal shutdown - device offline (local safety rule)."] >>

\* the test of the critical_patterns loop for entry k
CriticalHit(k, joined) ==
    \/ Contains(Chars(critical_patterns[k].pattern), joined)
    \/ Contains(ToLower(Chars(critical_patterns[k].pattern)), ToLower(joined))

HardFail(joined) == \E k \in 1..Len(critical_patterns) : CriticalHit(k, joined)

psu_single_fail(joined_lower) ==
    \/ /\ Contains(Chars("power supply"), joined_lower)
       /\ Contains(Chars("failed"), joined_lower)
       /\ ~Contains(Chars("dual"), joined_lower)
    \/ /\ Contains(Chars("psu"), joined_lower)
       /\ Contains(Chars("fail"), joined_lower)
       /\ ~Contains(Chars("dual"), joined_lower)

fan_fail(joined_lower) ==
    \/ Contains(Chars("fan fail"), joined_lower)
    \/ /\ Contains(Chars("fan"), joined_lower)
       /\ Contains(Chars("fail"), joined_lower)

overheat_hint(joined_lower) ==
    \/ Contains(Chars("high temperature"), joined_lower)
    \/ Contains(Chars("overheat"), joined_lower)
    \/ Contains(Chars("thermal"), joined_lower)

mem_symptom(joined_lower) ==
    \/ Contains(Chars("memory high"), joined_lower)
    \/ Contains(Chars("memory leak"), joined_lower)

oom_hint(joined_lower) ==
    \/ Contains(Chars("out of memory"), joined_lower)
    \/ Contains(Chars("oom"), joined_lower)
    \/ Contains(Chars("killed process"), joined_lower)

link_down(joined_lower) ==
    \/ Contains(Chars("interface down"), joined_lower)
    \/ Contains(Chars("link down"), joined_lower)

bgp_unstable(joined_lower) ==
    \/ Contains(Chars("bgp flapping"), joined_lower)
    \/ Contains(Chars("bgp peer down"), joined_lower)

\* a variant that tries the fan rule before the PSU rule
RulesOnTextFanFirst(topo, device_id, joined) ==
    LET joined_lower == ToLower(joined)
        psu_count == _get_psu_count(topo, device_id, 1)
    IN
    IF HardFail(joined)
    THEN LET k == Min({j \in 1..Len(critical_patterns) : CriticalHit(j, joined)})
         IN  AnalysisResult(device_id, "CRITICAL", critical_patterns[k].reason,
                            "Hardware/Physical", 95, TRUE)
    ELSE IF fan_fail(joined_lower)
    THEN IF overheat_hint(joined_lower)
         THEN AnalysisResult(device_id, "CRITICAL",
                  "Fan failure with overheat/thermal symptom detected (local safety rule).",
                  "Hardware/Physical", 90, TRUE)
         ELSE AnalysisResult(device_id, "WARNING",
                  "Fan failure detected. Service likely continues but risk of thermal escalation (local safety rule).",
                  "Hardware/Degraded", 85, TRUE)
    ELSE IF psu_single_fail(joined_lower)
    THEN IF psu_count >= 2
         THEN AnalysisResult(device_id, "WARNING",
                  "Single PSU failure with redundancy (local safety rule).",
                  "Hardware/Redundancy", 90, TRUE)
         ELSE AnalysisResult(device_id, "CRITICAL",
                  "Single PSU failure without redundancy (local safety rule).",
                  "Hardware/Physical", 90, TRUE)
    ELSE IF mem_symptom(joined_lower)
    THEN IF oom_hint(joined_lower)
         THEN AnalysisResult(device_id, "CRITICAL",
                  "Memory leak/high with OOM/crash symptom detected (local safety rule).",
                  "Software/Resource", 90, TRUE)
         ELSE AnalysisResult(device_id, "WARNING",
                  "Memory high/leak symptom detected. Likely degraded but not down yet (local safety rule).",
                  "Software/Resource", 80, TRUE)
    ELSE IF link_down(joined_lower)
    THEN AnalysisResult(device_id, "WARNING",
             "Interface/Link down detected (local rule).", "Network/LinkDown", 85, TRUE)
    ELSE IF bgp_unstable(joined_lower)
    THEN AnalysisResult(device_id, "WARNING",
             "BGP instability detected (local rule).", "Network/BGP", 85, TRUE)
    ELSE NoResult

RulesOnText(topo, device_id, joined) ==
    LET joined_lower == ToLower(joined)
        psu_count == _get_psu_count(topo, device_id, 1)
    IN
    IF HardFail(joined)
    THEN LET k == Min({j \in 1..Len(critical_patterns) : CriticalHit(j, joined)})
         IN  AnalysisResult(device_id, "CRITICAL", critical_patterns[k].reason,
                            "Hardware/Physical", 95, TRUE)
    ELSE IF psu_single_fail(joined_lower)
    THEN IF psu_count >= 2
         THEN AnalysisResult(device_id, "WARNING",
                  "Single PSU failure with redundancy (local safety rule).",
                  "Hardware/Redundancy", 90, TRUE)
         ELSE AnalysisResult(device_id, "CRITICAL",
                  "Single PSU failure without redundancy (local safety rule).",
                  "Hardware/Physical", 90, TRUE)
    ELSE IF fan_fail(joined_lower)
    THEN IF overheat_hint(joined_lower)
         THEN AnalysisResult(device_id, "CRITICAL",
                  "Fan failure with overheat/thermal symptom detected (local safety rule).",
                  "Hardware/Physical", 90, TRUE)
         ELSE AnalysisResult(device_id, "WARNING",
                  "Fan failure detected. Service likely continues but risk of thermal escalation (local safety rule).",
                  "Hardware/Degraded", 85, TRUE)
    ELSE IF mem_symptom(joined_lower)
    THEN IF oom_hint(joined_lower)
         THEN AnalysisResult(device_id, "CRITICAL",
                  "Memory leak/high with OOM/crash symptom detected (local safety rule).",
                  "Software/Resource", 90, TRUE)
         ELSE AnalysisResult(device_id, "WARNING",
                  "Memory high/leak symptom detected. Likely degraded but not down yet (local safety rule).",
                  "Software/Resource", 80, TRUE)
    ELSE IF link_down(joined_lower)
    THEN AnalysisResult(device_id, "WARNING",
             "Interface/Link down detected (local rule).", "Network/LinkDown", 85, TRUE)
    ELSE IF bgp_unstable(joined_lower)
    THEN AnalysisResult(device_id, "WARNING",
             "BGP instability detected (local rule).", "Network/BGP", 85, TRUE)
    ELSE NoResult

\* a variant that reads the first alert only
FirstAlertRules(topo, device_id, alerts) ==
    IF alerts = <<>>
    THEN AnalysisResult(device_id, "NORMAL", "No active alerts detected.", "NONE", 100, TRUE)
    ELSE RulesOnText(topo, device_id, Joined(<<alerts[1]>>))

_apply_local_rules(topo, device_id, alerts) ==
    IF alerts = <<>>
    THEN AnalysisResult(device_id, "NORMAL", "No active alerts detected.", "NONE", 100, TRUE)
    ELSE RulesOnText(topo, device_id, Joined(alerts))

(***************************************************************************)
(* msg_map is a dict device_id -> [messages]; it is kept as the sequence of *)
(* its items [id, messages] in iteration (insertion) order, ids distinct.   *)
(***************************************************************************)
Keys(m) == {m[i].id : i \in 1..Len(m)}

\* m.get(device_id, [])
Get(m, device_id) ==
    IF device_id \in Keys(m)
    THEN m[CHOOSE i \in 1..Len(m) : m[i].id = device_id].messages
    ELSE <<>>

SILENT_MIN_CHILDREN == 2
\* SILENT_RATIO = 0.5, in hundredths
SILENT_RATIO == 50

\* a variant that knows "connection lost" only
_is_connection_loss_narrow(msg) ==
    Contains(Chars("connection lost"), ToLower(Chars(msg)))

_is_connection_loss(msg) ==
    LET msg_l == ToLower(Chars(msg))
    IN  \/ Contains(Chars("connection lost"), msg_l)
        \/ Contains(Chars("link down"), msg_l)
        \/ Contains(Chars("port down"), msg_l)
        \/ Contains(Chars("unreachable"), msg_l)

\* _is_connection_loss of every text of the model, computed once
ConnectionLoss == [m \in AlertTexts |-> _is_connection_loss(m)] @@ <<>>

\* any(self._is_connection_loss(m) for m in messages)
AnyConnectionLoss(messages) ==
    \E i \in 1..Len(messages) : ConnectionLoss[messages[i]]

\* affected = [c for c in children if any(... for m in msg_map.get(c, []))]
Affected(children, msg_map) ==
    LET Hit(c) == AnyConnectionLoss(Get(msg_map, c))
    IN  SelectSeq(children, Hit)

\* a variant that asks for more than SILENT_RATIO of the children
SilentThresholdStrict(children, msg_map) ==
    LET affected == Affected(children, msg_map)
        total == Len(children)
    IN  /\ Len(affected) >= SILENT_MIN_CHILDREN
        /\ Len(affected) * 100 > SILENT_RATIO * Max({total, 1})

\* the test of line 508 for a parent with these children
SilentThreshold(children, msg_map) ==
    LET affected == Affected(children, msg_map)
        total == Len(children)
    IN  /\ Len(affected) >= SILENT_MIN_CHILDREN
        \* len(affected) / max(total, 1) >= SILENT_RATIO
        /\ Len(affected) * 100 >= SILENT_RATIO * Max({total, 1})

\* the dict of suspects: parent_id -> info
\* lines 497-508: the parent is flagged
IsSuspect(parent_id, children, msg_map) ==
    /\ children # <<>>
    /\ parent_id \notin Keys(msg_map)
    /\ Affected(children, msg_map) # <<>>
    /\ SilentThreshold(children, msg_map)

\* lines 509-521: the info kept for a flagged parent
SuspectInfo(children, affected) ==
    [evidence_count |-> Len(affected),
     total_children |-> Len(children),
     affected_children |-> affected]

SuspectsOf(cm, msg_map) ==
    [p \in {q \in DOMAIN cm : IsSuspect(q, cm[q], msg_map)} |->
        SuspectInfo(cm[p], Affected(cm[p], msg_map))]

_detect_silent_failures(topo, msg_map) == SuspectsOf(children_map(topo), msg_map)

(***************************************************************************)
(* infer_root_cause, lines 541-616: the loop over msg_map.  An entry of the *)
(* returned list is a record [id, prob, type, tier, reason]; prob is in     *)
(* hundredths.  "label" (the joined messages), "analyst_report" and         *)
(* "auto_investigation" are texts no decision reads and are left out; the   *)
(* reasons are kept without the ids they interpolate.                       *)
(***************************************************************************)
Entry(id, prob, type, tier, reason) ==
    [id |-> id, prob |-> prob, type |-> type, tier |-> tier, reason |-> reason]

\* "unreachable" in m.lower(), for every text of the model, computed once
Unreachable ==
    [m \in AlertTexts |-> Contains(Chars("unreachable"), ToLower(Chars(m)))] @@ <<>>

\* a variant with all() in place of any()
AllUnreachable(messages) == \A i \in 1..Len(messages) : Unreachable[messages[i]]

\* any("unreachable" in m.lower() for m in messages)
AnyUnreachable(messages) == \E i \in 1..Len(messages) : Unreachable[messages[i]]

\* a variant that puts WARNING in tier 1
ProbTierLoose(status) ==
    IF status = "CRITICAL" THEN [prob |-> 90, tier |-> 1]
    ELSE IF status = "WARNING" THEN [prob |-> 70, tier |-> 1]
    ELSE [prob |-> 30, tier |-> 3]

\* prob, tier chosen from the status of an AnalysisResult (lines 598-603, 631-636)
ProbTier(status) ==
    IF status = "CRITICAL" THEN [prob |-> 90, tier |-> 1]
    ELSE IF status = "WARNING" THEN [prob |-> 70, tier |-> 2]
    ELSE [prob |-> 30, tier |-> 3]

FromAnalysis(device_id, analysis) ==
    Entry(device_id, ProbTier(analysis.status).prob, analysis.impact_type,
          ProbTier(analysis.status).tier, analysis.reason)

SilentChildEntry(device_id) ==
    Entry(device_id, 40, "Network/ConnectionLost", 3,
          "Downstream symptom under suspected silent failure parent.")

CascadeEntry(device_id) ==
    Entry(device_id, 20, "Network/Unreachable", 3,
          "Downstream unreachable due to upstream alarm.")

SilentSuspectEntry(device_id) ==
    Entry(device_id, 80, "Network/SilentFailure", 1, "Silent failure suspected.")

\* lines 594-616: the verdict of the local rules is reported, or the device
\* goes to llm_needed
ByLocalRules(device_id, local_result) ==
    IF local_result # NoResult
    THEN [kind |-> "result", entry |-> FromAnalysis(device_id, local_result)]
    ELSE [kind |-> "llm", entry |-> Entry(device_id, 0, "", 0, "")]

\* one iteration of the loop: what is appended to results ("result"), or the
\* device goes to llm_needed ("llm")
BySuppression(topo, msg_map, silent_suspects, device_id, messages, parent_id) ==
    IF parent_id \in DOMAIN silent_suspects /\ AnyConnectionLoss(messages)
    THEN [kind |-> "result", entry |-> SilentChildEntry(device_id)]
    ELSE IF AnyUnreachable(messages) /\ parent_id \in Keys(msg_map)
    THEN [kind |-> "result", entry |-> CascadeEntry(device_id)]
    ELSE IF device_id \in DOMAIN silent_suspects
    THEN [kind |-> "result", entry |-> SilentSuspectEntry(device_id)]
    ELSE ByLocalRules(device_id, _apply_local_rules(topo, device_id, messages))

ClassifyDevice(topo, msg_map, silent_suspects, device_id, messages) ==
    BySuppression(topo, msg_map, silent_suspects, device_id, messages,
                  _get_parent_id(topo, device_id))

ClassifiedWith(topo, msg_map, silent_suspects) ==
    <<>> \o [i \in 1..Len(msg_map) |->
        ClassifyDevice(topo, msg_map, silent_suspects,
                       msg_map[i].id, msg_map[i].messages)]

Classified(topo, msg_map) ==
    ClassifiedWith(topo, msg_map, _detect_silent_failures(topo, msg_map) @@ <<>>)

\* results after the loop, in msg_map order (c = Classified(topo, msg_map))
LoopResults(c) ==
    LET IsResult(x) == x.kind = "result"
        r == SelectSeq(c, IsResult)
    IN  <<>> \o [i \in 1..Len(r) |-> r[i].entry]

\* a variant that sends every device of msg_map to the oracle
LlmNeededAll(c, msg_map) == msg_map

\* llm_needed after the loop: the items of msg_map no rule decided, in order
LlmNeeded(c, msg_map) ==
    LET RECURSIVE Pick(_)
        Pick(i) == IF i > Len(msg_map) THEN <<>>
                   ELSE IF c[i].kind = "llm" THEN <<msg_map[i]>> \o Pick(i + 1)
                   ELSE Pick(i + 1)
    IN  Pick(1)

(***************************************************************************)
(* results.sort(key=lambda x: x["prob"], reverse=True): list.sort is        *)
(* stable, and with reverse=True entries of equal prob keep their order.    *)
(* Insertion sort from the left is the same permutation.                    *)
(***************************************************************************)
InsertByProb(sorted, e) ==
    LET before == {i \in 1..Len(sorted) : sorted[i].prob >= e.prob}
        k == IF before = {} THEN 0 ELSE Max(before)
    IN  SubSeq(sorted, 1, k) \o <<e>> \o SubSeq(sorted, k + 1, Len(sorted))

RECURSIVE SortFrom(_, _, _)
SortFrom(list, i, acc) ==
    IF i > Len(list) THEN acc
    ELSE SortFrom(list, i + 1, InsertByProb(acc, list[i]))

SortByProbDesc(list) == SortFrom(list, 1, <<>>)

(***************************************************************************)
(* GlobalRateLimiter (src/rate_limiter.py).  Times are tenths of a second.  *)
(* A limiter state is a record                                              *)
(*   [request_times, daily_count, daily_reset_time]                         *)
(* request_times being the deque, oldest first.                             *)
(***************************************************************************)
rpm == 30
rpd == 14400
input_tokens == 128000
\* safety_margin = 0.8, in hundredths
safety_margin == 80
\* cache_ttl, seconds
cache_ttl == 3600
\* wait_for_slot(timeout=120.0), seconds
wait_timeout == 120

Ds(seconds) == seconds * 10

\* int(x * safety_margin)
EffectiveLimit(x) == (x * safety_margin) \div 100

\* _check_daily_limit: the limiter after the call, and what it returns
_check_daily_limit(lim, now) ==
    LET reset == now - lim.daily_reset_time > Ds(86400)
        after == IF reset
                 THEN [lim EXCEPT !.daily_count = 0, !.daily_reset_time = now]
                 ELSE lim
    IN  [lim |-> after, ok |-> after.daily_count < EffectiveLimit(rpd)]

\* while self._request_times and now - self._request_times[0] > 60: popleft()
RECURSIVE PopExpired(_, _)
PopExpired(times, now) ==
    IF times # <<>> /\ now - Head(times) > Ds(60)
    THEN PopExpired(Tail(times), now)
    ELSE times

\* the same with `<=` for `<` in the comparison of line 135
_check_minute_limit_inclusive(lim, now) ==
    LET after == [lim EXCEPT !.request_times = PopExpired(lim.request_times, now)]
    IN  [lim |-> after, ok |-> Len(after.request_times) <= EffectiveLimit(rpm)]

_check_minute_limit(lim, now) ==
    LET after == [lim EXCEPT !.request_times = PopExpired(lim.request_times, now)]
    IN  [lim |-> after, ok |-> Len(after.request_times) < EffectiveLimit(rpm)]

\* `self._check_daily_limit() and self._check_minute_limit()`: the minute
\* check runs only when the daily check passed
CheckLimits(lim, now) ==
    LET d == _check_daily_limit(lim, now)
    IN  IF d.ok THEN _check_minute_limit(d.lim, now) ELSE d

\* the sleep computed at lines 152-158
WaitTime(lim, now, start_time) ==
    LET w == IF lim.request_times # <<>>
             THEN Max({0, Ds(60) - (now - Head(lim.request_times))}) + 1
             ELSE Ds(2)
    IN  Min({w, Ds(wait_timeout) - (now - start_time)})

(***************************************************************************)
(* wait_for_slot run to its end by one caller with no other thread acting   *)
(* on the limiter meanwhile, time.sleep taking exactly the time asked.      *)
(* A state of the call is [lim, now, ok, returned]; WaitStep is one turn of *)
(* the while loop (lines 146-161) or, the loop condition failing, line 164. *)
(* Every sleep is at least one tenth of a second, so the loop makes at most *)
(* Ds(wait_timeout) turns; WaitRun applies WaitStep that often (by halves,  *)
(* which keeps the evaluation shallow).                                     *)
(***************************************************************************)
WaitStep(s, start_time) ==
    IF s.returned THEN s
    ELSE IF ~(s.now - start_time < Ds(wait_timeout))
    THEN [s EXCEPT !.ok = FALSE, !.returned = TRUE]
    ELSE LET c == CheckLimits(s.lim, s.now)
             w == WaitTime(c.lim, s.now, start_time)
         IN  IF c.ok
             THEN [lim |-> c.lim, now |-> s.now, ok |-> TRUE, returned |-> TRUE]
             ELSE [lim |-> c.lim, now |-> IF w > 0 THEN s.now + w ELSE s.now,
                   ok |-> FALSE, returned |-> FALSE]

RECURSIVE WaitRun(_, _, _)
WaitRun(s, start_time, turns) ==
    IF s.returned \/ turns = 0 THEN s
    ELSE IF turns = 1 THEN WaitStep(s, start_time)
    ELSE WaitRun(WaitRun(s, start_time, turns \div 2), start_time,
                 turns - turns \div 2)

wait_for_slot(lim, now) ==
    WaitRun([lim |-> lim, now |-> now, ok |-> FALSE, returned |-> FALSE],
            now, Ds(wait_timeout) + 1)

\* deque(maxlen=rpm).append
DequeAppend(times, t) ==
    IF Len(times) >= rpm THEN Tail(times) \o <<t>> ELSE times \o <<t>>

record_request(lim, now) ==
    [lim EXCEPT !.request_times = DequeAppend(lim.request_times, now),
                !.daily_count = lim.daily_count + 1]

(***************************************************************************)
(* The cache: a dict key -> {value, timestamp}, kept as the set of its      *)
(* entries [key, value, timestamp], keys distinct.                          *)
(***************************************************************************)
_clean_expired_cache(cache, now) ==
    {e \in cache : ~(now - e.timestamp > Ds(cache_ttl))}

CacheKeys(cache) == {e.key : e \in cache}

\* get_cache without the test of the age at line 96
get_cache_unchecked(cache, now, key) ==
    LET cleaned == _clean_expired_cache(cache, now)
        live == {e \in cleaned : e.key = key}
    IN  [cache |-> cleaned,
         found |-> live # {},
         value |-> IF live # {} THEN (CHOOSE e \in live : TRUE).value ELSE <<>>]

\* get_cache: the cache after its _clean_expired_cache, whether an entry is
\* returned (found = FALSE is the None of the code) and its value
get_cache(cache, now, key) ==
    LET cleaned == _clean_expired_cache(cache, now)
        live == {e \in cleaned : e.key = key /\ now - e.timestamp < Ds(cache_ttl)}
    IN  [cache |-> cleaned,
         found |-> live # {},
         value |-> IF live # {} THEN (CHOOSE e \in live : TRUE).value ELSE <<>>]

set_cache(cache, now, key, value) ==
    {e \in cache : e.key # key} \cup {[key |-> key, value |-> value, timestamp |-> now]}

\* compute_cache_key("batch_analysis", json.dumps(devices_alerts, sort_keys=True)):
\* the JSON text with sorted keys is the same for two dicts exactly when they
\* hold the same items, whatever their order; the md5 of it is taken as
\* collision-free
BatchCacheKey(devices_alerts) ==
    [id \in Keys(devices_alerts) |-> Get(devices_alerts, id)]

(***************************************************************************)
(* The size of the prompt of _analyze_batch_with_llm and check_input_limit. *)
(* The prompt is the fixed text of lines 377-395 around                     *)
(* json.dumps(devices_info, ensure_ascii=False, indent=2); the lengths      *)
(* below are those of that layout.  All texts of the model are ASCII, the   *)
(* fixed text holds 235 ASCII and 212 non-ASCII characters.                 *)
(***************************************************************************)
PromptAscii == 235
PromptNonAscii == 212

RECURSIVE SumFrom(_, _)
SumFrom(seq, i) == IF i > Len(seq) THEN 0 ELSE seq[i] + SumFrom(seq, i + 1)
Sum(seq) == SumFrom(seq, 1)

\* len(json.dumps(s)) of a str: quotes, and a backslash before ", \, \n, \t
JsonStrLen(s) ==
    2 + Sum([i \in 1..Len(s) |->
                BlockLen(s[i]) + (IF s[i] \in {"\"", "\\", "\n", "\t"} THEN 1 ELSE 0)])

\* the "alerts" value: [] or one alert per line at indent 6, closed at indent 4
AlertsJsonLen(safe_alerts) ==
    IF safe_alerts = <<>> THEN 2
    ELSE 2 + Sum([i \in 1..Len(safe_alerts) |-> 6 + JsonStrLen(safe_alerts[i])])
           + (Len(safe_alerts) - 1) * 2 + 6

\* the "metadata" value of a node: {} or its keys at indent 6
MetadataJsonLen(info) ==
    LET hw == IF info.psu_count = "" THEN 0
              ELSE 6 + 17 + 9 + 13
                   + (IF IntOf(info.psu_count) # -1 THEN Len(Chars(info.psu_count))
                      ELSE JsonStrLen(Chars(info.psu_count)))
                   + 1 + 7
        red == IF info.redundancy_type = "" THEN 0
               ELSE 6 + 19 + JsonStrLen(Chars(info.redundancy_type))
        n == (IF hw > 0 THEN 1 ELSE 0) + (IF red > 0 THEN 1 ELSE 0)
    IN  IF n = 0 THEN 2
        ELSE 2 + hw + red + (n - 1) * 2 + 1 + 5

\* one element of devices_info at indent 2
DeviceJsonLen(topo, item) ==
    4 + (4 + 13 + JsonStrLen(Chars(item.id)) + 2)
      + (4 + 12 + MetadataJsonLen(_get_device_info(topo, item.id)) + 2)
      + (4 + 10 + AlertsJsonLen(SafeAlerts(item.messages)) + 1)
      + 3

DevicesInfoJsonLen(topo, devices_alerts) ==
    IF devices_alerts = <<>> THEN 2
    ELSE 2 + Sum([i \in 1..Len(devices_alerts) |-> DeviceJsonLen(topo, devices_alerts[i])])
           + (Len(devices_alerts) - 1) * 2 + 2

\* estimate_tokens: int(ascii_count / 4 + non_ascii_count / 1.5)
estimate_tokens(ascii_count, non_ascii_count) ==
    (3 * ascii_count + 8 * non_ascii_count) \div 12

\* check_input_limit(prompt, safety_margin=0.9), margin in hundredths
input_safety_margin == 90

check_input_limit(ascii_count, non_ascii_count) ==
    ~(estimate_tokens(ascii_count, non_ascii_count)
        > (input_tokens * input_safety_margin) \div 100)

PromptFits(topo, devices_alerts) ==
    check_input_limit(PromptAscii + DevicesInfoJsonLen(topo, devices_alerts),
                      PromptNonAscii)

(***************************************************************************)
(* The oracle's answer.  response.text is kept as a sequence of tokens:     *)
(*   [t |-> "fence"]  a ``` fence        [t |-> "word"]  a \w+ word          *)
(*   [t |-> "nl"]     a newline          [t |-> "prose"] text that is not   *)
(*   [t |-> "json", items |-> ...]  the text of a JSON array          JSON  *)
(* An item of the array is [dict, device_id, status]: dict = FALSE is an    *)
(* element that is no JSON object, device_id = "" / status = "" a missing   *)
(* key.  "reason" and "impact_type" of an item are the oracle's free text,  *)
(* fixed here.                                                              *)
(***************************************************************************)
Tok(t) == [t |-> t, items |-> <<>>]
JsonTok(items) == [t |-> "json", items |-> items]

RECURSIVE LStrip(_)
LStrip(text) ==
    IF text # <<>> /\ Head(text).t = "nl" THEN LStrip(Tail(text)) ELSE text

RECURSIVE RStrip(_)
RStrip(text) ==
    IF text # <<>> /\ text[Len(text)].t = "nl"
    THEN RStrip(SubSeq(text, 1, Len(text) - 1)) ELSE text

\* str.strip()
Strip(text) == RStrip(LStrip(text))

DropIf(text, t) == IF text # <<>> /\ Head(text).t = t THEN Tail(text) ELSE text
DropLastIf(text, t) ==
    IF text # <<>> /\ text[Len(text)].t = t
    THEN SubSeq(text, 1, Len(text) - 1) ELSE text

\* lines 422-424: re.sub(r'^```\w*\n?', '', ...) then re.sub(r'\n?```$', '', ...)
StripFence(text) ==
    IF text # <<>> /\ Head(text).t = "fence"
    THEN LET opened == DropIf(DropIf(Tail(text), "word"), "nl")
         IN  IF opened # <<>> /\ opened[Len(opened)].t = "fence"
             THEN DropLastIf(SubSeq(opened, 1, Len(opened) - 1), "nl")
             ELSE opened
    ELSE text

\* json.loads: the text must be one JSON value, whitespace around it allowed
JsonLoads(text) ==
    LET core == Strip(text)
    IN  IF Len(core) = 1 /\ core[1].t = "json"
        THEN [ok |-> TRUE, items |-> core[1].items]
        ELSE [ok |-> FALSE, items |-> <<>>]

\* lines 435-441
HealthStatusOf(status_text) ==
    LET status_str == ToUpper(Chars(IF status_text = "" THEN "WARNING" ELSE status_text))
    IN  IF status_str \in {Chars("GREEN"), Chars("NORMAL")} THEN "NORMAL"
        ELSE IF status_str \in {Chars("YELLOW"), Chars("WARNING")} THEN "WARNING"
        ELSE "CRITICAL"

(***************************************************************************)
(* A result dict device_id -> AnalysisResult is the sequence of its values  *)
(* in insertion order.                                                      *)
(***************************************************************************)
ResultIds(results) == {results[i].device_id : i \in 1..Len(results)}

\* results[dev_id] = value: in place when the key exists, appended otherwise
DictSet(results, value) ==
    IF value.device_id \in ResultIds(results)
    THEN <<>> \o [i \in 1..Len(results) |->
            IF results[i].device_id = value.device_id THEN value ELSE results[i]]
    ELSE Append(results, value)

\* a.update(b)
RECURSIVE DictUpdateFrom(_, _, _)
DictUpdateFrom(a, b, i) ==
    IF i > Len(b) THEN a ELSE DictUpdateFrom(DictSet(a, b[i]), b, i + 1)
DictUpdate(a, b) == DictUpdateFrom(a, b, 1)

\* a variant of the loop that keeps the ids the batch does not hold
RECURSIVE MapItemsAll(_, _, _, _)
MapItemsAll(devices_alerts, items, i, results) ==
    IF i > Len(items) THEN results
    ELSE MapItemsAll(devices_alerts, items, i + 1,
            DictSet(results,
                    AnalysisResult(items[i].device_id, HealthStatusOf(items[i].status),
                                   "oracle reason", "DEGRADED", 70, FALSE)))

\* lines 430-449: the loop over result_list
RECURSIVE MapItemsFrom(_, _, _, _)
MapItemsFrom(devices_alerts, items, i, results) ==
    IF i > Len(items) THEN results
    ELSE IF items[i].device_id \notin Keys(devices_alerts)
    THEN MapItemsFrom(devices_alerts, items, i + 1, results)
    ELSE MapItemsFrom(devices_alerts, items, i + 1,
            DictSet(results,
                    AnalysisResult(items[i].device_id, HealthStatusOf(items[i].status),
                                   "oracle reason", "DEGRADED", 70, FALSE)))

\* a variant that leaves the response as it is
FillMissingNone(devices_alerts, i, results) == results

\* lines 452-460: the devices the response did not name
RECURSIVE FillMissingFrom(_, _, _)
FillMissingFrom(devices_alerts, i, results) ==
    IF i > Len(devices_alerts) THEN results
    ELSE FillMissingFrom(devices_alerts, i + 1,
            IF devices_alerts[i].id \in ResultIds(results) THEN results
            ELSE Append(results,
                    AnalysisResult(devices_alerts[i].id, "WARNING",
                                   "No analysis result from AI", "UNKNOWN", 30, FALSE)))

\* lines 419-460 on a response: raised = TRUE when json.loads or item.get raises
HandleResponse(devices_alerts, text) ==
    LET parsed == JsonLoads(StripFence(Strip(text)))
        all_dicts == \A i \in 1..Len(parsed.items) : parsed.items[i].dict
    IN  IF parsed.ok /\ all_dicts
        THEN [raised |-> FALSE,
              results |-> FillMissingFrom(devices_alerts, 1,
                              MapItemsFrom(devices_alerts, parsed.items, 1, <<>>))]
        ELSE [raised |-> TRUE, results |-> <<>>]

\* the dict comprehensions of lines 345-354 and 470-479
Degraded(devices_alerts, reason, impact_type, confidence) ==
    <<>> \o [i \in 1..Len(devices_alerts) |->
        AnalysisResult(devices_alerts[i].id, "WARNING", reason, impact_type,
                       confidence, FALSE)]

NotConfiguredResults(devices_alerts) ==
    Degraded(devices_alerts, "API key not configured. Manual analysis required.",
             "UNKNOWN", 30)

FailedResults(devices_alerts) ==
    Degraded(devices_alerts, "AI Analysis Failed", "AI_ERROR", 20)

(***************************************************************************)
(* The state.                                                               *)
(*   topology, api_key        the topology given to __init__ and whether    *)
(*                            GOOGLE_API_KEY is set in the environment      *)
(*   api_configured           LogicalRCA._api_configured                    *)
(*   lim, cache               the shared GlobalRateLimiter: request window, *)
(*                            daily counter and reset time; the cache       *)
(*   now                      the clock, tenths of a second                 *)
(*   alarms, msg_map          the argument of analyze / infer_root_cause    *)
(*   pc                       where the call is                             *)
(*   results, llm_needed, batch_at   locals of infer_root_cause (batch_at   *)
(*                            is the i of the batching loop)                *)
(*   stack                    the active calls of _analyze_batch_with_llm,  *)
(*                            outermost first                               *)
(*   output                   the list returned by the last call            *)
(*   oracle_log               history: the batches given to generate_content*)
(*   run, prev_output         number of the current call and the list the   *)
(*                            previous call returned                        *)
(*   local_result             the result of a direct _apply_local_rules     *)
(*   dispatched               history: the batches infer_root_cause has     *)
(*                            called _analyze_batch_with_llm with, in order *)
(*   last_call                history: the argument and the dict returned   *)
(*                            by the call of _analyze_batch_with_llm that   *)
(*                            returned last (<<>>: none yet)                *)
(*   last_error               the exception generate_content raised last,  *)
(*                            with the batch it was called for              *)
(*   suspects                 the dict a direct call of                     *)
(*                            _detect_silent_failures returned              *)
(*   response                 the text the oracle answered, when the        *)
(*                            handling of a response is run on its own      *)
(*   stamps                   history: the times record_request appended,   *)
(*                            oldest first (the deque forgets them)         *)
(*   threads, lock            the threads that use the shared limiter, each *)
(*                            with the locals of its wait_for_slot, and the *)
(*                            holder of _request_lock (0: nobody)           *)
(*   last_set, got            history: the set_cache calls made so far, and *)
(*                            what the last get_cache returned              *)
(*   cache_lock               the holder of _cache_lock (0: nobody)         *)
(*   instance                 GlobalRateLimiter._instance: whether it       *)
(*                            exists, its _initialized flag and how many    *)
(*                            times __init__ has set its state              *)
(***************************************************************************)
VARIABLES topology, api_key, api_configured, lim, cache, now,
          alarms, msg_map, pc, results, llm_needed, batch_at, stack,
          output, oracle_log, run, prev_output, local_result, stamps,
          threads, lock, last_set, got, last_call, response, dispatched,
          last_error, suspects, cache_lock, instance

vars == <<topology, api_key, api_configured, lim, cache, now,
          alarms, msg_map, pc, results, llm_needed, batch_at, stack,
          output, oracle_log, run, prev_output, local_result, stamps,
          threads, lock, last_set, got, last_call, response, dispatched,
          last_error, suspects, cache_lock, instance>>

\* the state the calls of analyze and infer_root_cause leave as it is
aux == <<stamps, threads, lock, last_set, got, response, last_error,
         suspects, cache_lock, instance>>

\* the state of the engine apart from the limiter, the cache and the clock
engine == <<topology, api_key, api_configured, alarms, msg_map, results,
            llm_needed, batch_at, stack, output, oracle_log, prev_output,
            local_result, last_call, response, dispatched, last_error,
            suspects>>

MAX_BATCH_SIZE == 5

\* bounds of the model
MaxAlarms == 3
MaxDirect == 2
MaxItems == 2
MaxDepth == 4
MaxRuns == 2
MaxAlerts == 2
T0 == 100000

Node(id, parent_id, psu_count, redundancy_type) ==
    [id |-> id, parent_id |-> parent_id, psu_count |-> psu_count,
     redundancy_type |-> redundancy_type]

\* the topology of the model: CORE - SW1 - AP1..AP4
Topo ==
    << Node("CORE", NoParent, "2", ""),
       Node("SW1", "CORE", "", "psu"),
       Node("AP1", "SW1", "1", ""),
       Node("AP2", "SW1", "2", "HA"),
       Node("AP3", "SW1", "two", ""),
       Node("AP4", "SW1", "", "") >>

SeqsUpTo(S, n) == UNION {[1..k -> S] : k \in 0..n}

Item(id, messages) == [id |-> id, messages |-> messages]
Alarm(device_id, message) == [device_id |-> device_id, message |-> message]

(***************************************************************************)
(* analyze, lines 690-698: group the alarms by device, dropping an alarm    *)
(* whose device_id or message is falsy ("" stands for None and for "").     *)
(***************************************************************************)
AddAlarm(m, alarm) ==
    IF alarm.device_id = "" \/ alarm.message = "" THEN m
    ELSE IF alarm.device_id \in Keys(m)
    THEN <<>> \o [i \in 1..Len(m) |->
            IF m[i].id = alarm.device_id
            THEN Item(m[i].id, Append(m[i].messages, alarm.message))
            ELSE m[i]]
    ELSE Append(m, Item(alarm.device_id, <<alarm.message>>))

RECURSIVE GroupFrom(_, _, _)
GroupFrom(list, i, m) ==
    IF i > Len(list) THEN m ELSE GroupFrom(list, i + 1, AddAlarm(m, list[i]))

GroupAlarms(list) == GroupFrom(list, 1, <<>>)

(***************************************************************************)
(* Inputs of the model.                                                     *)
(***************************************************************************)
AlarmDevices == {"SW1", "AP1", "AP2", ""}
AlarmMessages ==
    [d \in AlarmDevices |->
        CASE d = "SW1" -> {"Heartbeat Loss", "Power Supply 1 Failed", "Device Down", ""}
          [] d = "AP1" -> {"Connection Lost", "Host Unreachable", "Device Down",
                           "Power Supply 1 Failed", ""}
          [] d = "AP2" -> {"Connection Lost", "Host Unreachable",
                           "Power Supply 1 Failed", "Heartbeat Loss"}
          [] OTHER     -> {"Device Down"}]
AlarmLists ==
    SeqsUpTo(UNION {{Alarm(d, m) : m \in AlarmMessages[d]} : d \in AlarmDevices},
             MaxAlarms)

DirectDevices == {"AP3", "X9"}
DirectLists == {<<>>, <<"Heartbeat Loss">>, <<"Power Supply 1 Failed">>,
                <<"Trace dump A (250k)">>, <<"Trace dump (480k)">>}
DirectMaps ==
    {m \in SeqsUpTo({Item(d, l) : d \in DirectDevices, l \in DirectLists}, MaxDirect) :
        \A i, j \in 1..Len(m) : i # j => m[i].id # m[j].id}

\* limiter states the program reaches: as constructed; the window full;
\* the daily budget spent
FreshLimiter == [request_times |-> <<>>, daily_count |-> 0, daily_reset_time |-> T0]
FullWindow ==
    [request_times |-> [i \in 1..EffectiveLimit(rpm) |-> T0 - Ds(30) + i],
     daily_count |-> EffectiveLimit(rpm),
     daily_reset_time |-> T0 - Ds(600)]
DailySpent ==
    [request_times |-> <<T0 - Ds(5)>>,
     daily_count |-> EffectiveLimit(rpd),
     daily_reset_time |-> T0 - Ds(3600)]

InitCommon ==
    /\ topology = Topo
    /\ api_configured = FALSE
    /\ cache = {}
    /\ now = T0
    /\ results = <<>>
    /\ llm_needed = <<>>
    /\ batch_at = 0
    /\ stack = <<>>
    /\ output = <<>>
    /\ oracle_log = <<>>
    /\ run = 1
    /\ prev_output = <<>>
    /\ local_result = NoResult
    /\ last_call = <<>>
    /\ dispatched = <<>>

\* the threads of the model and a thread outside wait_for_slot
NThreads == 2
Threads == 1..NThreads
IdleThread ==
    [pc |-> "idle", start_time |-> 0, timeout |-> 0, now |-> 0, wake |-> 0,
     slept |-> FALSE, calls |-> 0]

\* the instance once a construction has completed, lines 58-78
Constructed == [exists |-> TRUE, initialized |-> TRUE, inits |-> 1]

\* no history, no thread in the limiter
InitAux ==
    /\ stamps = <<>>
    /\ threads = [t \in Threads |-> IdleThread]
    /\ lock = 0
    /\ last_set = <<>>
    /\ got = <<>>
    /\ response = <<>>
    /\ last_error = <<>>
    /\ suspects = <<>>
    /\ cache_lock = 0
    /\ instance = Constructed

\* analyze(alarms) on a fresh limiter
InitAnalyze ==
    /\ InitCommon
    /\ InitAux
    /\ api_key \in BOOLEAN
    /\ lim = FreshLimiter
    /\ alarms \in AlarmLists
    /\ msg_map = <<>>
    /\ pc = "analyze"

\* infer_root_cause(msg_map) called directly
InitDirect ==
    /\ InitCommon
    /\ InitAux
    /\ api_key \in BOOLEAN
    /\ lim \in {FreshLimiter, FullWindow, DailySpent}
    /\ alarms = <<>>
    /\ msg_map \in DirectMaps
    /\ pc = "infer"

Init == InitAnalyze \/ InitDirect

\* _apply_local_rules(device_id, alerts) called directly
RuleDevices == {"CORE", "AP1", "X9"}
RuleTexts == AlertTexts \ {"", "Trace dump A (250k)", "Trace dump B (250k)",
                           "Trace dump (480k)"}
InitRules ==
    /\ InitCommon
    /\ InitAux
    /\ api_key = FALSE
    /\ lim = FreshLimiter
    /\ alarms = <<>>
    /\ \E d \in RuleDevices, l \in SeqsUpTo(RuleTexts, MaxAlerts) :
          msg_map = <<Item(d, l)>>
    /\ pc = "rules"

(***************************************************************************)
(* Calls of _analyze_batch_with_llm.  A frame of the stack is               *)
(*   [devices_alerts, phase, first]                                         *)
(* phase "call": the call has just been entered; "first" / "second": the    *)
(* call is at line 404 / 405, waiting for the recursive call on the first / *)
(* second half (first = the results dict after line 404).                   *)
(***************************************************************************)
CallFrame(devices_alerts) ==
    [devices_alerts |-> devices_alerts, phase |-> "call", first |-> <<>>]

Top == stack[Len(stack)]
Below == SubSeq(stack, 1, Len(stack) - 1)

\* items[i:i + MAX_BATCH_SIZE], i counted from 0
BatchAt(items, i) == SubSeq(items, i + 1, Min({i + MAX_BATCH_SIZE, Len(items)}))

\* a call returns `value` to the frames `stk` under it: what the stack is
\* when control next leaves _analyze_batch_with_llm or enters it again
RECURSIVE Unwind(_, _)
Unwind(stk, value) ==
    IF stk = <<>> THEN [stack |-> <<>>, value |-> value, returned |-> TRUE]
    ELSE LET f == stk[Len(stk)]
             under == SubSeq(stk, 1, Len(stk) - 1)
             mid == Len(f.devices_alerts) \div 2
         IN  IF f.phase = "first"
             THEN [stack |-> under
                             \o <<[f EXCEPT !.phase = "second",
                                            !.first = DictUpdate(<<>>, value)]>>
                             \o <<CallFrame(SubSeq(f.devices_alerts, mid + 1,
                                                   Len(f.devices_alerts)))>>,
                   value |-> <<>>, returned |-> FALSE]
             ELSE Unwind(under, DictUpdate(f.first, value))

\* lines 628-645: the entries appended for one batch_results
BatchEntries(batch_results) ==
    <<>> \o [i \in 1..Len(batch_results) |->
        FromAnalysis(batch_results[i].device_id, batch_results[i])]

\* a variant in which infer_root_cause leaves the loop of line 621 when a
\* batch came back with the verdicts of the except branch
ReturnOrStop(value) ==
    LET u == Unwind(Below, value)
        merged == results \o BatchEntries(u.value)
        next == batch_at + MAX_BATCH_SIZE
        failed == \E i \in 1..Len(value) : value[i].impact_type = "AI_ERROR"
    IN  /\ last_call' = <<[devices_alerts |-> Top.devices_alerts, value |-> value]>>
        /\ IF ~u.returned
           THEN /\ stack' = u.stack
                /\ UNCHANGED <<results, batch_at, pc, output, dispatched>>
           ELSE IF next < Len(llm_needed) /\ ~failed
           THEN /\ stack' = <<CallFrame(BatchAt(llm_needed, next))>>
                /\ dispatched' = Append(dispatched, BatchAt(llm_needed, next))
                /\ results' = merged
                /\ batch_at' = next
                /\ UNCHANGED <<pc, output>>
           ELSE /\ stack' = <<>>
                /\ results' = SortByProbDesc(merged)
                /\ output' = SortByProbDesc(merged)
                /\ pc' = "done"
                /\ UNCHANGED <<batch_at, dispatched>>

\* the call on top of the stack returns `value`; infer_root_cause goes on to
\* the next batch, or sorts and returns (lines 624-648)
Return(value) ==
    LET u == Unwind(Below, value)
        merged == results \o BatchEntries(u.value)
        next == batch_at + MAX_BATCH_SIZE
    IN  /\ last_call' = <<[devices_alerts |-> Top.devices_alerts, value |-> value]>>
        /\ IF ~u.returned
           THEN /\ stack' = u.stack
                /\ UNCHANGED <<results, batch_at, pc, output, dispatched>>
           ELSE IF next < Len(llm_needed)
           THEN /\ stack' = <<CallFrame(BatchAt(llm_needed, next))>>
                /\ dispatched' = Append(dispatched, BatchAt(llm_needed, next))
                /\ results' = merged
                /\ batch_at' = next
                /\ UNCHANGED <<pc, output>>
           ELSE /\ stack' = <<>>
                /\ results' = SortByProbDesc(merged)
                /\ output' = SortByProbDesc(merged)
                /\ pc' = "done"
                /\ UNCHANGED <<batch_at, dispatched>>

InCall == pc = "batch" /\ stack # <<>> /\ Top.phase = "call"

\* _ensure_api_configured returns True: already configured, or the key is set
\* and genai.configure / GenerativeModel do not raise
Configured == api_configured \/ api_key

CacheLookup == get_cache(cache, now, BatchCacheKey(Top.devices_alerts))
\* `if cached:` an empty dict is falsy
CacheHit == CacheLookup.found /\ CacheLookup.value # <<>>

(***************************************************************************)
(* Actions.                                                                 *)
(***************************************************************************)
\* analyze(alarms), lines 690-701: builds msg_map and calls infer_root_cause
analyze ==
    /\ pc = "analyze"
    /\ msg_map' = GroupAlarms(alarms)
    /\ pc' = "infer"
    /\ UNCHANGED <<aux, last_call, dispatched,
                   topology, api_key, api_configured, lim, cache, now, alarms,
                   results, llm_needed, batch_at, stack, output, oracle_log,
                   run, prev_output, local_result>>

\* infer_root_cause, lines 538-626: the loop over msg_map; with nothing for
\* the oracle the results are sorted and returned at once
AfterLoop(r, l) ==
    IF msg_map = <<>>
    THEN /\ output' = <<>>
         /\ pc' = "done"
         /\ UNCHANGED <<results, llm_needed, stack, dispatched>>
    ELSE IF l = <<>>
    THEN /\ results' = SortByProbDesc(r)
         /\ output' = results'
         /\ llm_needed' = l
         /\ pc' = "done"
         /\ UNCHANGED <<stack, dispatched>>
    ELSE /\ results' = r
         /\ llm_needed' = l
         /\ stack' = <<CallFrame(BatchAt(l, 0))>>
         /\ dispatched' = <<BatchAt(l, 0)>>
         /\ pc' = "batch"
         /\ UNCHANGED output

LoopOutcome(c) == AfterLoop(LoopResults(c), LlmNeeded(c, msg_map))

infer_root_cause ==
    /\ pc = "infer"
    /\ LoopOutcome(Classified(topology, msg_map))
    /\ batch_at' = 0
    /\ UNCHANGED <<aux, last_call,
                   topology, api_key, api_configured, lim, cache, now, alarms,
                   msg_map, oracle_log, run, prev_output, local_result>>

\* a variant that takes a slot of the limiter before it gives the verdicts
BatchNotConfiguredRecorded ==
    /\ InCall
    /\ ~api_configured
    /\ lim' = record_request(lim, now)
    /\ Return(NotConfiguredResults(Top.devices_alerts))
    /\ UNCHANGED <<aux, topology, api_key, api_configured, cache, now, alarms,
                   msg_map, llm_needed, oracle_log, run, prev_output, local_result>>

\* lines 343-354: no credential (or configure raises): the degraded verdicts
BatchNotConfigured ==
    /\ InCall
    /\ ~api_configured
    /\ Return(NotConfiguredResults(Top.devices_alerts))
    /\ UNCHANGED <<aux, topology, api_key, api_configured, lim, cache, now, alarms,
                   msg_map, llm_needed, oracle_log, run, prev_output, local_result>>

\* lines 356-364: the cached dict is returned
BatchCacheHit ==
    /\ InCall
    /\ Configured
    /\ CacheHit
    /\ api_configured' = TRUE
    /\ cache' = CacheLookup.cache
    /\ Return(CacheLookup.value)
    /\ UNCHANGED <<aux, topology, api_key, lim, now, alarms, msg_map, llm_needed,
                   oracle_log, run, prev_output, local_result>>

\* lines 398-404: the prompt is too long; the call recurses on the first half
BatchSplit ==
    /\ InCall
    /\ Configured
    /\ ~CacheHit
    /\ ~PromptFits(topology, Top.devices_alerts)
    /\ Len(stack) < MaxDepth
    /\ api_configured' = TRUE
    /\ cache' = CacheLookup.cache
    /\ stack' = Below \o <<[Top EXCEPT !.phase = "first"]>>
                      \o <<CallFrame(SubSeq(Top.devices_alerts, 1,
                                            Len(Top.devices_alerts) \div 2))>>
    /\ UNCHANGED <<aux, last_call, dispatched,
                   topology, api_key, lim, now, alarms, msg_map, pc, results,
                   llm_needed, batch_at, output, oracle_log, run, prev_output,
                   local_result>>

\* the same, with the interpreter's recursion limit reached (MaxDepth frames
\* stand for it): RecursionError, raised outside the try of line 408, leaves
\* _analyze_batch_with_llm and infer_root_cause
BatchRecursionError ==
    /\ InCall
    /\ Configured
    /\ ~CacheHit
    /\ ~PromptFits(topology, Top.devices_alerts)
    /\ Len(stack) >= MaxDepth
    /\ api_configured' = TRUE
    /\ cache' = CacheLookup.cache
    /\ stack' = <<>>
    /\ pc' = "raised"
    /\ UNCHANGED <<aux, last_call, dispatched,
                   topology, api_key, lim, now, alarms, msg_map, results,
                   llm_needed, batch_at, output, oracle_log, run, prev_output,
                   local_result>>

Dispatching ==
    /\ InCall
    /\ Configured
    /\ ~CacheHit
    /\ PromptFits(topology, Top.devices_alerts)

\* a variant that records a request although wait_for_slot returned False
BatchSlotTimeoutRecorded ==
    /\ Dispatching
    /\ LET w == wait_for_slot(lim, now)
       IN  /\ ~w.ok
           /\ lim' = record_request(w.lim, w.now)
           /\ now' = w.now
    /\ api_configured' = TRUE
    /\ cache' = CacheLookup.cache
    /\ Return(FailedResults(Top.devices_alerts))
    /\ UNCHANGED <<aux, topology, api_key, alarms, msg_map, llm_needed, oracle_log,
                   run, prev_output, local_result>>

\* lines 410-411 and 468-479: wait_for_slot returns False
BatchSlotTimeout ==
    /\ Dispatching
    /\ LET w == wait_for_slot(lim, now)
       IN  /\ ~w.ok
           /\ lim' = w.lim
           /\ now' = w.now
    /\ api_configured' = TRUE
    /\ cache' = CacheLookup.cache
    /\ Return(FailedResults(Top.devices_alerts))
    /\ UNCHANGED <<aux, topology, api_key, alarms, msg_map, llm_needed, oracle_log,
                   run, prev_output, local_result>>

\* the exceptions generate_content may raise: the service refuses the
\* request for its rate (429), or refuses the credential (400)
TransientErrors == {"429 Resource has been exhausted"}
PermanentErrors == {"400 API key not valid"}
OracleErrors == TransientErrors \cup PermanentErrors

\* lines 410-418 and 468-479: generate_content raises
BatchOracleRaises ==
    /\ Dispatching
    /\ \E e \in OracleErrors :
          last_error' = <<[error |-> e, devices_alerts |-> Top.devices_alerts]>>
    /\ LET w == wait_for_slot(lim, now)
       IN  /\ w.ok
           /\ lim' = record_request(w.lim, w.now)
           /\ now' = w.now
    /\ api_configured' = TRUE
    /\ cache' = CacheLookup.cache
    /\ oracle_log' = Append(oracle_log, Top.devices_alerts)
    /\ Return(FailedResults(Top.devices_alerts))
    /\ UNCHANGED <<stamps, threads, lock, cache_lock, instance, last_set, got, response,
                   suspects, topology,
                   api_key, alarms, msg_map, llm_needed, run, prev_output,
                   local_result>>

\* what the oracle may answer for a batch: a JSON list of at most MaxItems
\* items (verdicts for devices of the batch or for a device that is not in
\* it, an item without device_id, an item that is not an object), bare or
\* wrapped in fences and prose, or no JSON at all
OracleStatus == {"green", "CRITICAL"}
OracleItems(devices_alerts) ==
    {[dict |-> TRUE, device_id |-> d, status |-> s] :
        d \in Keys(devices_alerts), s \in OracleStatus}
    \cup {[dict |-> TRUE, device_id |-> "ZZ9", status |-> "unknown"],
          [dict |-> TRUE, device_id |-> "", status |-> "WARNING"],
          [dict |-> FALSE, device_id |-> "", status |-> ""]}
OracleLists(devices_alerts) == SeqsUpTo(OracleItems(devices_alerts), MaxItems)
Wrapped(items) ==
    { <<Tok("fence"), Tok("word"), Tok("nl"), JsonTok(items), Tok("nl"), Tok("fence")>>,
      <<Tok("nl"), Tok("fence"), Tok("nl"), JsonTok(items), Tok("fence"), Tok("nl")>>,
      <<Tok("prose"), Tok("nl"), JsonTok(items)>>,
      <<Tok("fence"), Tok("nl"), JsonTok(items), Tok("nl"), Tok("fence"), Tok("nl"), Tok("prose")>> }
OracleTexts(devices_alerts) ==
    {<<JsonTok(items)>> : items \in OracleLists(devices_alerts)}
    \cup UNION {Wrapped(items) : items \in SeqsUpTo(OracleItems(devices_alerts), 1)}
    \cup {<<Tok("prose")>>}

\* lines 410-466 and 468-479: the oracle answers; the answer is parsed,
\* repaired and cached, or, when parsing raises, the batch is degraded
BatchOracleAnswers ==
    /\ Dispatching
    /\ LET w == wait_for_slot(lim, now)
       IN  /\ w.ok
           /\ lim' = record_request(w.lim, w.now)
           /\ now' = w.now
           /\ \E text \in OracleTexts(Top.devices_alerts) :
                LET h == HandleResponse(Top.devices_alerts, text)
                IN  IF h.raised
                    THEN /\ cache' = CacheLookup.cache
                         /\ Return(FailedResults(Top.devices_alerts))
                    ELSE /\ cache' = set_cache(CacheLookup.cache, w.now,
                                               BatchCacheKey(Top.devices_alerts),
                                               h.results)
                         /\ Return(h.results)
    /\ api_configured' = TRUE
    /\ oracle_log' = Append(oracle_log, Top.devices_alerts)
    /\ UNCHANGED <<aux, topology, api_key, alarms, msg_map, llm_needed, run,
                   prev_output, local_result>>

\* a direct caller of infer_root_cause calls it again with the same msg_map,
\* at once or when the cache entries of the previous call have reached
\* their ttl
Rerun ==
    /\ pc = "done"
    /\ alarms = <<>>
    /\ run < MaxRuns
    /\ run' = run + 1
    /\ prev_output' = output
    /\ \E delay \in {0, Ds(cache_ttl)} : now' = now + delay
    /\ pc' = "infer"
    /\ results' = <<>>
    /\ llm_needed' = <<>>
    /\ batch_at' = 0
    /\ output' = <<>>
    /\ dispatched' = <<>>
    /\ UNCHANGED <<aux, last_call,
                   topology, api_key, api_configured, lim, cache, alarms,
                   msg_map, stack, oracle_log, local_result>>

\* _apply_local_rules(device_id, alerts), lines 194-325
apply_local_rules ==
    /\ pc = "rules"
    /\ local_result' = _apply_local_rules(topology, msg_map[1].id, msg_map[1].messages)
    /\ pc' = "ruled"
    /\ UNCHANGED <<aux, last_call, dispatched,
                   topology, api_key, api_configured, lim, cache, now, alarms,
                   msg_map, results, llm_needed, batch_at, stack, output,
                   oracle_log, run, prev_output>>

Next ==
    \/ analyze
    \/ infer_root_cause
    \/ BatchNotConfigured
    \/ BatchCacheHit
    \/ BatchSplit
    \/ BatchRecursionError
    \/ BatchSlotTimeout
    \/ BatchOracleRaises
    \/ BatchOracleAnswers
    \/ Rerun

Spec == Init /\ [][Next]_vars

NextRules == apply_local_rules

SpecRules == InitRules /\ [][NextRules]_vars

(***************************************************************************)
(* The limiter used by one caller, one request after another, as lines      *)
(* 410-413 of _analyze_batch_with_llm use it: wait_for_slot, then           *)
(* record_request when it returned True.  No other thread acts on the       *)
(* limiter.  pc is "idle" between requests, "slot" at the call of           *)
(* wait_for_slot, "record" when it returned True and "refused" when it      *)
(* returned False; run counts the requests.                                 *)
(***************************************************************************)
MaxRequests == 3

\* the time between two requests, tenths of a second
Pauses == {0, 1, Ds(31), Ds(61)}

\* the window filled by a burst: all its requests in the same 0.1 s
BurstWindow ==
    [request_times |-> [i \in 1..EffectiveLimit(rpm) |-> T0 - Ds(59)],
     daily_count |-> EffectiveLimit(rpm),
     daily_reset_time |-> T0 - Ds(600)]

InitLimiter ==
    /\ InitCommon
    /\ api_key = FALSE
    /\ alarms = <<>>
    /\ msg_map = <<>>
    /\ lim \in {FreshLimiter, FullWindow, BurstWindow, DailySpent}
    /\ stamps = lim.request_times
    /\ threads = [t \in Threads |-> IdleThread]
    /\ lock = 0
    /\ cache_lock = 0
    /\ instance = Constructed
    /\ last_set = <<>>
    /\ got = <<>>
    /\ response = <<>>
    /\ last_error = <<>>
    /\ suspects = <<>>
    /\ pc = "idle"

LimiterPause ==
    /\ pc \in {"idle", "refused"}
    /\ run <= MaxRequests
    /\ \E d \in Pauses : now' = now + d
    /\ pc' = "slot"
    /\ UNCHANGED <<engine, cache, lim, run, stamps, threads, lock, cache_lock, instance, last_set, got>>

\* what wait_for_slot leaves, w being the end of its run
SlotOutcome(w) ==
    /\ lim' = w.lim
    /\ now' = w.now
    /\ pc' = IF w.ok THEN "record" ELSE "refused"

\* limiter.wait_for_slot(timeout=120.0), lines 137-164
LimiterWait ==
    /\ pc = "slot"
    /\ SlotOutcome(wait_for_slot(lim, now))
    /\ run' = IF pc' = "refused" THEN run + 1 ELSE run
    /\ UNCHANGED <<engine, cache, stamps, threads, lock, cache_lock, instance, last_set, got>>

\* limiter.record_request(), lines 166-171, at once or 0.1 s after
LimiterRecord ==
    /\ pc = "record"
    /\ \E d \in {0, 1} :
          /\ now' = now + d
          /\ lim' = record_request(lim, now')
          /\ stamps' = Append(stamps, now')
    /\ run' = run + 1
    /\ pc' = "idle"
    /\ UNCHANGED <<engine, cache, threads, lock, cache_lock, instance, last_set, got>>

NextLimiter ==
    \/ LimiterPause
    \/ LimiterWait
    \/ LimiterRecord

SpecLimiter == InitLimiter /\ [][NextLimiter]_vars

(***************************************************************************)
(* The limiter shared by threads.  Each thread calls wait_for_slot and,     *)
(* when it returned True, record_request.  A step is what a thread does     *)
(* without another thread being able to see a state in between: a           *)
(* statement outside the lock, or a part of the block under _request_lock   *)
(* that changes the deque once.  The clock advances at any moment.          *)
(* The pc of a thread:                                                      *)
(*   "idle"      outside the limiter                                        *)
(*   "loop"      at the loop condition, line 146                            *)
(*   "lock"      at `with self._request_lock`, line 147                     *)
(*   "minute"    in _check_minute_limit under the lock, lines 130-135       *)
(*   "truth"     at `if self._request_times`, line 152                      *)
(*   "oldest"    at `oldest = self._request_times[0]`, line 153             *)
(*   "sleeping"  in time.sleep, line 161                                    *)
(*   "true", "false"   wait_for_slot has returned                           *)
(*   "raised"    wait_for_slot has raised                                   *)
(***************************************************************************)
\* the clock stops MaxClock tenths of a second after T0; a thread makes at
\* most MaxCalls calls
MaxClock == 12
MaxCalls == 1

Ticks == {1, 11}

\* the timeout argument of wait_for_slot, tenths of a second
SlotTimeouts == {5}

\* the daily budget spent, the reset of the day due 0.1 s after T0; the last
\* request of the day is still in the deque, the minute check having not
\* run since
DailyStale ==
    [request_times |-> <<T0 - Ds(100)>>,
     daily_count |-> EffectiveLimit(rpd),
     daily_reset_time |-> T0 - Ds(86400)]

\* one slot left in the window
NearFull ==
    [request_times |-> [i \in 1..(EffectiveLimit(rpm) - 1) |-> T0 - Ds(30) + i],
     daily_count |-> EffectiveLimit(rpm) - 1,
     daily_reset_time |-> T0 - Ds(600)]

InitThreads ==
    /\ InitCommon
    /\ api_key = FALSE
    /\ alarms = <<>>
    /\ msg_map = <<>>
    /\ lim \in {FreshLimiter, NearFull, BurstWindow, DailySpent, DailyStale}
    /\ stamps = lim.request_times
    /\ threads = [t \in Threads |-> IdleThread]
    /\ lock = 0
    /\ cache_lock = 0
    /\ instance = Constructed
    /\ last_set = <<>>
    /\ got = <<>>
    /\ response = <<>>
    /\ last_error = <<>>
    /\ suspects = <<>>
    /\ pc = "threads"

ThreadFrame == <<engine, cache, pc, run, last_set, got, cache_lock, instance>>

\* thread t with its pc changed
At(t, where) == [threads EXCEPT ![t].pc = where]

\* start_time = time.time(), line 144
ThreadCall ==
    \E t \in Threads, timeout \in SlotTimeouts :
        /\ threads[t].pc = "idle"
        /\ threads[t].calls < MaxCalls
        /\ threads' = [threads EXCEPT ![t] =
              [pc |-> "loop", start_time |-> now, timeout |-> timeout,
               now |-> 0, wake |-> 0, slept |-> FALSE,
               calls |-> threads[t].calls + 1]]
        /\ UNCHANGED <<ThreadFrame, lim, now, stamps, lock>>

\* while time.time() - start_time < timeout, line 146; return False, line 164
ThreadLoop ==
    \E t \in Threads :
        /\ threads[t].pc = "loop"
        /\ threads' = At(t, IF now - threads[t].start_time < threads[t].timeout
                            THEN "lock" ELSE "false")
        /\ UNCHANGED <<ThreadFrame, lim, now, stamps, lock>>

\* what _check_daily_limit leaves, d being its outcome: when it returns
\* False the `and` of line 148 is False and the lock is released
DailyOutcome(t, d) ==
    /\ lim' = d.lim
    /\ lock' = IF d.ok THEN t ELSE 0
    /\ threads' = [threads EXCEPT ![t].pc = IF d.ok THEN "minute" ELSE "truth",
                                  ![t].now = IF d.ok THEN now ELSE 0]

\* with self._request_lock: self._check_daily_limit(), lines 147-148 and
\* 115-124, then now = time.time() of line 128
ThreadCheckDaily ==
    \E t \in Threads :
        /\ threads[t].pc = "lock"
        /\ lock = 0
        /\ DailyOutcome(t, _check_daily_limit(lim, now))
        /\ UNCHANGED <<ThreadFrame, now, stamps>>

\* one turn of the loop of line 131: popleft
ThreadPopleft ==
    \E t \in Threads :
        /\ threads[t].pc = "minute"
        /\ lim.request_times # <<>>
        /\ threads[t].now - Head(lim.request_times) > Ds(60)
        /\ lim' = [lim EXCEPT !.request_times = Tail(lim.request_times)]
        /\ UNCHANGED <<ThreadFrame, now, stamps, threads, lock>>

\* the loop of line 131 over: lines 134-135, then return True (line 149) or
\* the end of the `with` block
ThreadMinuteDone ==
    \E t \in Threads :
        /\ threads[t].pc = "minute"
        /\ ~(lim.request_times # <<>>
             /\ threads[t].now - Head(lim.request_times) > Ds(60))
        /\ threads' = [threads EXCEPT
              ![t].pc = IF Len(lim.request_times) < EffectiveLimit(rpm)
                        THEN "true" ELSE "truth",
              ![t].now = 0]
        /\ lock' = 0
        /\ UNCHANGED <<ThreadFrame, lim, now, stamps>>

\* lines 158-161: the sleep asked for, cut to what is left of the timeout
Sleep(t, wait_time) ==
    LET th == threads[t]
        w == Min({wait_time, th.timeout - (now - th.start_time)})
    IN  IF w > 0
        THEN [threads EXCEPT ![t].pc = "sleeping", ![t].wake = now + w,
                             ![t].slept = TRUE]
        ELSE At(t, "loop")

\* if self._request_times, line 152, read without the lock; else
\* wait_time = 2.0, line 156
ThreadTruth ==
    \E t \in Threads :
        /\ threads[t].pc = "truth"
        /\ threads' = IF lim.request_times # <<>>
                      THEN At(t, "oldest")
                      ELSE Sleep(t, Ds(2))
        /\ UNCHANGED <<ThreadFrame, lim, now, stamps, lock>>

\* oldest = self._request_times[0], line 153, read without the lock:
\* IndexError when the deque has been emptied since line 152; line 154
ThreadOldest ==
    \E t \in Threads :
        /\ threads[t].pc = "oldest"
        /\ threads' =
              IF lim.request_times = <<>>
              THEN At(t, "raised")
              ELSE Sleep(t, Max({0, Ds(60) - (now - Head(lim.request_times))}) + 1)
        /\ UNCHANGED <<ThreadFrame, lim, now, stamps, lock>>

\* time.sleep(wait_time) over
ThreadWake ==
    \E t \in Threads :
        /\ threads[t].pc = "sleeping"
        /\ now >= threads[t].wake
        /\ threads' = [threads EXCEPT ![t].pc = "loop", ![t].wake = 0]
        /\ UNCHANGED <<ThreadFrame, lim, now, stamps, lock>>

\* record_request after wait_for_slot returned True, lines 166-171
ThreadRecord ==
    \E t \in Threads :
        /\ threads[t].pc = "true"
        /\ lock = 0
        /\ lim' = record_request(lim, now)
        /\ stamps' = Append(stamps, now)
        /\ threads' = At(t, "idle")
        /\ UNCHANGED <<ThreadFrame, now, lock>>

\* the caller goes on after wait_for_slot returned False
ThreadRefused ==
    \E t \in Threads :
        /\ threads[t].pc = "false"
        /\ threads' = At(t, "idle")
        /\ UNCHANGED <<ThreadFrame, lim, now, stamps, lock>>

\* time passes
Tick ==
    /\ pc = "threads"
    /\ \E d \in Ticks :
          /\ now + d <= T0 + MaxClock
          /\ now' = now + d
    /\ UNCHANGED <<ThreadFrame, lim, stamps, threads, lock>>

NextThreads ==
    \/ ThreadCall
    \/ ThreadLoop
    \/ ThreadCheckDaily
    \/ ThreadPopleft
    \/ ThreadMinuteDone
    \/ ThreadTruth
    \/ ThreadOldest
    \/ ThreadWake
    \/ ThreadRecord
    \/ ThreadRefused
    \/ Tick

SpecThreads == InitThreads /\ [][NextThreads]_vars

(***************************************************************************)
(* The cache used alone: set_cache and get_cache called one after another   *)
(* with time passing in between.  last_set is the list of the set_cache     *)
(* calls made, [key, value, timestamp], oldest first; got is <<>> or the    *)
(* one outcome of the get_cache just made, [key, found, value].  pc is      *)
(* "cache" before a call and "cached" after it; run counts the calls.       *)
(***************************************************************************)
MaxOps == 4

CacheKeySet == {"k1", "k2"}
CacheValues == {"v1", "v2"}

\* the time between two calls, tenths of a second
CachePauses == {0, 1, Ds(cache_ttl) - 1, Ds(cache_ttl)}

InitCache ==
    /\ InitCommon
    /\ InitAux
    /\ api_key = FALSE
    /\ alarms = <<>>
    /\ msg_map = <<>>
    /\ lim = FreshLimiter
    /\ pc = "cache"

\* set_cache(key, value), lines 101-108
CacheSet ==
    /\ pc = "cache"
    /\ \E k \in CacheKeySet, v \in CacheValues :
          /\ cache' = set_cache(cache, now, k, v)
          /\ last_set' = Append(last_set, [key |-> k, value |-> v, timestamp |-> now])
    /\ got' = <<>>
    /\ pc' = "cached"
    /\ UNCHANGED <<engine, lim, now, run, stamps, threads, lock, cache_lock, instance>>

\* what get_cache leaves, r being its outcome
GetOutcome(k, r) ==
    /\ cache' = r.cache
    /\ got' = <<[key |-> k, found |-> r.found, value |-> r.value]>>

\* get_cache(key), lines 91-99
CacheGet ==
    /\ pc = "cache"
    /\ \E k \in CacheKeySet : GetOutcome(k, get_cache(cache, now, k))
    /\ pc' = "cached"
    /\ UNCHANGED <<engine, lim, now, run, stamps, threads, lock, cache_lock, instance, last_set>>

\* time passes until the next call
CachePause ==
    /\ pc = "cached"
    /\ run < MaxOps
    /\ \E d \in CachePauses : now' = now + d
    /\ run' = run + 1
    /\ pc' = "cache"
    /\ UNCHANGED <<engine, lim, cache, stamps, threads, lock, cache_lock, instance, last_set, got>>

NextCache ==
    \/ CacheSet
    \/ CacheGet
    \/ CachePause

SpecCache == InitCache /\ [][NextCache]_vars

(***************************************************************************)
(* The handling of an oracle response (lines 419-479) on its own: a batch   *)
(* was dispatched and the oracle has answered `response`.  pc is "answer"   *)
(* before the response is handled and "answered" after.                     *)
(***************************************************************************)
ResponseBatches ==
    { <<Item("AP3", <<"Heartbeat Loss">>)>>,
      <<Item("AP3", <<"Heartbeat Loss">>), Item("X9", <<"Power Supply 1 Failed">>)>>,
      <<Item("X9", <<>>), Item("AP1", <<"Heartbeat Loss">>), Item("AP3", <<"Heartbeat Loss">>)>> }

InitResponse ==
    /\ topology = Topo
    /\ api_key = TRUE
    /\ api_configured = TRUE
    /\ lim = FreshLimiter
    /\ cache = {}
    /\ now = T0
    /\ alarms = <<>>
    /\ msg_map = <<>>
    /\ results = <<>>
    /\ llm_needed = <<>>
    /\ batch_at = 0
    /\ output = <<>>
    /\ oracle_log = <<>>
    /\ run = 1
    /\ prev_output = <<>>
    /\ local_result = NoResult
    /\ last_call = <<>>
    /\ stamps = <<>>
    /\ threads = [t \in Threads |-> IdleThread]
    /\ lock = 0
    /\ cache_lock = 0
    /\ instance = Constructed
    /\ last_set = <<>>
    /\ got = <<>>
    /\ last_error = <<>>
    /\ suspects = <<>>
    /\ \E devices_alerts \in ResponseBatches :
          /\ stack = <<CallFrame(devices_alerts)>>
          /\ response \in OracleTexts(devices_alerts)
    /\ dispatched = <<stack[1].devices_alerts>>
    /\ pc = "answer"

\* what the call returns, h being the outcome of the handling
ResponseOutcome(h) ==
    /\ last_call' = <<[devices_alerts |-> Top.devices_alerts,
                       value |-> IF h.raised THEN FailedResults(Top.devices_alerts)
                                 ELSE h.results]>>
    /\ cache' = IF h.raised THEN cache
                ELSE set_cache(cache, now, BatchCacheKey(Top.devices_alerts), h.results)

\* lines 419-466 and 468-479
BatchAnswered ==
    /\ pc = "answer"
    /\ ResponseOutcome(HandleResponse(Top.devices_alerts, response))
    /\ pc' = "answered"
    /\ UNCHANGED <<topology, api_key, api_configured, lim, now, alarms, msg_map,
                   results, llm_needed, batch_at, stack, output, oracle_log, run,
                   prev_output, local_result, stamps, threads, lock, cache_lock, instance, last_set,
                   got, response, dispatched, last_error,
                   suspects>>

NextResponse == BatchAnswered

SpecResponse == InitResponse /\ [][NextResponse]_vars

(***************************************************************************)
(* Calls with more unresolved devices than one batch holds.                 *)
(***************************************************************************)
\* one alarm with `message` for each device of `ids`, in order
AlarmsOf(ids, message) == <<>> \o [i \in 1..Len(ids) |-> Alarm(ids[i], message)]

BatchAlarmLists ==
    { \* five unresolved devices: one full batch
      AlarmsOf(<<"AP1", "AP2", "AP3", "AP4", "X9">>, "Heartbeat Loss"),
      \* six, a device decided by a local rule among them: batches of 5 and 1
      AlarmsOf(<<"AP1", "AP2">>, "Heartbeat Loss")
          \o <<Alarm("CORE", "Device Down")>>
          \o AlarmsOf(<<"AP3", "AP4", "X9", "SW1">>, "Heartbeat Loss"),
      \* seven: batches of 5 and 2
      AlarmsOf(<<"CORE", "SW1", "AP1", "AP2", "AP3", "AP4", "X9">>, "Heartbeat Loss"),
      \* six, the first with an alert too long for any prompt
      <<Alarm("AP1", "Trace dump (480k)")>>
          \o AlarmsOf(<<"AP2", "AP3", "AP4", "X9", "SW1">>, "Heartbeat Loss") }

InitBatches ==
    /\ InitCommon
    /\ InitAux
    /\ \/ /\ api_key \in BOOLEAN
          /\ lim = FreshLimiter
          /\ alarms \in BatchAlarmLists
          /\ msg_map = <<>>
          /\ pc = "analyze"
       \/ /\ api_key = TRUE
          /\ lim = DailySpent
          /\ alarms = AlarmsOf(<<"CORE", "SW1", "AP1", "AP2", "AP3", "AP4", "X9">>,
                               "Heartbeat Loss")
          /\ msg_map = <<>>
          /\ pc = "analyze"
       \/ /\ api_key = TRUE
          /\ lim \in {FreshLimiter, DailySpent}
          /\ alarms = <<>>
          /\ msg_map = <<Item("AP3", <<"Heartbeat Loss">>)>>
          /\ pc = "infer"

SpecBatches == InitBatches /\ [][Next]_vars

(***************************************************************************)
(* _detect_silent_failures on its own: an engine built on one of three      *)
(* topologies is asked for the suspects of a msg_map.  pc is "silent"       *)
(* before the call and "detected" after.                                    *)
(***************************************************************************)
\* SW1 has five children: two of them are less than half
TopoFive ==
    Topo \o << Node("AP5", "SW1", "", ""), Node("X9", "GHOST", "", "") >>

\* SW1 has three children; GHOST, which is no node itself, has three
TopoGhost ==
    << Node("CORE", NoParent, "2", ""),
       Node("SW1", "CORE", "", ""),
       Node("AP1", "SW1", "", ""),
       Node("AP2", "SW1", "", ""),
       Node("AP3", "SW1", "", ""),
       Node("AP4", "GHOST", "", ""),
       Node("AP5", "GHOST", "", ""),
       Node("X9", "GHOST", "", "") >>

SilentTopologies == {Topo, TopoFive, TopoGhost}

SilentDevices == <<"SW1", "AP1", "AP2", "AP3", "AP4", "AP5", "X9">>
Absent == <<"(absent)">>
\* what a device may have in msg_map: no item, or one of these lists
SilentLists(d) ==
    {Absent, <<"Heartbeat Loss">>, <<"Connection Lost">>}
        \cup (IF d = "AP1" THEN {<<"Heartbeat Loss", "Host Unreachable">>} ELSE {})

MapOf(choice) ==
    LET Present(item) == item.messages # Absent
    IN  SelectSeq([i \in 1..Len(SilentDevices) |-> Item(SilentDevices[i], choice[i])],
                  Present)

SilentMaps ==
    {MapOf(choice) :
        choice \in {c \in [1..Len(SilentDevices) ->
                             UNION {SilentLists(SilentDevices[i]) : i \in 1..Len(SilentDevices)}] :
                       \A i \in 1..Len(SilentDevices) : c[i] \in SilentLists(SilentDevices[i])}}

InitSilent ==
    /\ topology \in SilentTopologies
    /\ msg_map \in SilentMaps
    /\ api_key = FALSE
    /\ api_configured = FALSE
    /\ lim = FreshLimiter
    /\ cache = {}
    /\ now = T0
    /\ alarms = <<>>
    /\ results = <<>>
    /\ llm_needed = <<>>
    /\ batch_at = 0
    /\ stack = <<>>
    /\ output = <<>>
    /\ oracle_log = <<>>
    /\ run = 1
    /\ prev_output = <<>>
    /\ local_result = NoResult
    /\ last_call = <<>>
    /\ dispatched = <<>>
    /\ InitAux
    /\ pc = "silent"

\* _detect_silent_failures(msg_map), lines 493-523
detect_silent_failures ==
    /\ pc = "silent"
    /\ suspects' = _detect_silent_failures(topology, msg_map)
    /\ pc' = "detected"
    /\ UNCHANGED <<topology, api_key, api_configured, lim, cache, now, alarms,
                   msg_map, results, llm_needed, batch_at, stack, output,
                   oracle_log, run, prev_output, local_result, stamps, threads,
                   lock, cache_lock, instance, last_set, got, last_call, response, dispatched,
                   last_error>>

NextSilent == detect_silent_failures

SpecSilent == InitSilent /\ [][NextSilent]_vars

(***************************************************************************)
(* rate_limited_with_retry (src/rate_limiter.py, lines 235-300) on its own: *)
(* a function decorated with max_retries = n is called, and called again    *)
(* with the same arguments.  The frame of the wrapper is stack[1]:          *)
(*   max_retries     n of the decorator                                     *)
(*   attempt         the loop variable of line 262                          *)
(*   slots, calls    how many times this call asked for a slot, and called  *)
(*                   the wrapped function                                   *)
(*   delays, errors  history: the sleeps of line 293 and the exceptions     *)
(*                   caught at line 278, in order                           *)
(*   hit             history: an unexpired entry of the key was stored when *)
(*                   the call began                                         *)
(* oracle_log holds the clock reading of each call of the wrapped function, *)
(* stamps the reading of each record_request, last_set the set_cache calls, *)
(* last_call what the wrapper returned or raised.  pc is "retry" before a   *)
(* call, "attempt" in the loop, "returned" or "raised" after.               *)
(***************************************************************************)
retry_base_delay == 2
retry_max_delay == 60
\* the max_retries the model decorates with: none, the default, and enough
\* for the delay to reach retry_max_delay
RetryCounts == {0, 3, 6}

RetryKey == "f(x)"
None == "None"
FuncResults == {"v1", None}
\* what the wrapped function may raise: a 429, a timeout, and a server error
\* whose text happens to hold the letters "rate"
FuncErrors == {"429 Resource has been exhausted", "Deadline exceeded",
               "500 Failed to generate"}

RetryFrame(n) ==
    [max_retries |-> n, attempt |-> 0, slots |-> 0, calls |-> 0,
     delays |-> <<>>, errors |-> <<>>, hit |-> FALSE]

InitRetry ==
    /\ InitCommon
    /\ InitAux
    /\ api_key = FALSE
    /\ lim \in {FreshLimiter, FullWindow, DailySpent}
    /\ alarms = <<>>
    /\ msg_map = <<>>
    /\ pc = "begin"

\* the decorated function is defined: max_retries is fixed
RetryDecorate ==
    /\ pc = "begin"
    /\ \E n \in RetryCounts : stack' = <<RetryFrame(n)>>
    /\ pc' = "retry"
    /\ UNCHANGED <<aux, topology, api_key, api_configured, lim, cache, now,
                   alarms, msg_map, results, llm_needed, batch_at, output,
                   oracle_log, run, prev_output, local_result, last_call,
                   dispatched>>

\* 2 ** k
RECURSIVE Pow2(_)
Pow2(k) == IF k = 0 THEN 1 ELSE 2 * Pow2(k - 1)

\* a variant without the cap of retry_max_delay
RetryDelayUncapped(attempt) == Ds(retry_base_delay * Pow2(attempt))

\* lines 288-291: min(retry_base_delay * (2 ** attempt), retry_max_delay)
RetryDelay(attempt) ==
    Ds(Min({retry_base_delay * Pow2(attempt), retry_max_delay}))

\* lines 280-285: the test on str(e).lower(), retry_on = (429, 503)
should_retry(e) ==
    LET error_msg == ToLower(Chars(e))
    IN  \/ Contains(Chars("429"), error_msg)
        \/ Contains(Chars("503"), error_msg)
        \/ Contains(Chars("overloaded"), error_msg)
        \/ Contains(Chars("rate"), error_msg)

\* should_retry of every exception of the model, computed once
ShouldRetry ==
    [e \in FuncErrors \cup {"Rate limit exceeded"} |-> should_retry(e)] @@ <<>>

\* lines 255-259: the cache is looked up; a hit is returned at once
RetryLookup(g) ==
    /\ cache' = g.cache
    /\ stack' = <<[RetryFrame(stack[1].max_retries) EXCEPT !.hit = g.found]>>
    /\ IF g.found
       THEN /\ last_call' = <<[raised |-> FALSE, value |-> g.value]>>
            /\ pc' = "returned"
       ELSE /\ pc' = "attempt"
            /\ UNCHANGED last_call

RetryCall ==
    /\ pc = "retry"
    /\ RetryLookup(get_cache(cache, now, RetryKey))
    /\ UNCHANGED <<aux, topology, api_key, api_configured, lim, now, alarms,
                   msg_map, results, llm_needed, batch_at, output, oracle_log,
                   run, prev_output, local_result, dispatched>>

\* lines 278-297: the exception e is caught at clock reading t; the wrapper
\* sleeps and goes round again, or leaves the loop and raises last_error
RetryCaught(e, t, frame) ==
    /\ last_error' = <<e>>
    /\ IF ShouldRetry[e] /\ frame.attempt < frame.max_retries
       THEN /\ now' = t + RetryDelay(frame.attempt)
            /\ stack' = <<[frame EXCEPT !.errors = Append(@, e),
                                        !.delays = Append(@, RetryDelay(frame.attempt)),
                                        !.attempt = @ + 1]>>
            /\ pc' = "attempt"
            /\ UNCHANGED last_call
       ELSE /\ now' = t
            /\ stack' = <<[frame EXCEPT !.errors = Append(@, e)]>>
            /\ pc' = "raised"
            /\ last_call' = <<[raised |-> TRUE, value |-> e]>>

\* lines 265-266: wait_for_slot returns False, RuntimeError is raised
SlotRefusedOutcome(w) ==
    /\ ~w.ok
    /\ lim' = w.lim
    /\ RetryCaught("Rate limit exceeded", w.now,
                   [stack[1] EXCEPT !.slots = @ + 1])

RetrySlotRefused ==
    /\ pc = "attempt"
    /\ SlotRefusedOutcome(wait_for_slot(lim, now))
    /\ UNCHANGED <<stamps, threads, lock, cache_lock, instance, last_set, got, response, suspects,
                   topology, api_key, api_configured, cache, alarms, msg_map,
                   results, llm_needed, batch_at, output, oracle_log, run,
                   prev_output, local_result, dispatched>>

\* lines 265-270: the slot, record_request, the call of the wrapped function
FuncCalled(w) ==
    /\ w.ok
    /\ lim' = record_request(w.lim, w.now)
    /\ stamps' = Append(stamps, w.now)
    /\ oracle_log' = Append(oracle_log, w.now)

\* the wrapped function raises
FuncRaisesOutcome(w) ==
    /\ FuncCalled(w)
    /\ \E e \in FuncErrors :
          RetryCaught(e, w.now, [stack[1] EXCEPT !.slots = @ + 1, !.calls = @ + 1])

RetryFuncRaises ==
    /\ pc = "attempt"
    /\ FuncRaisesOutcome(wait_for_slot(lim, now))
    /\ UNCHANGED <<threads, lock, cache_lock, instance, last_set, got, response, suspects, topology,
                   api_key, api_configured, cache, alarms, msg_map, results,
                   llm_needed, batch_at, output, run, prev_output, local_result,
                   dispatched>>

\* lines 270-276: the wrapped function returns; a result that is not None
\* is stored
FuncReturnsOutcome(w) ==
    /\ FuncCalled(w)
    /\ now' = w.now
    /\ stack' = <<[stack[1] EXCEPT !.slots = @ + 1, !.calls = @ + 1]>>
    /\ \E result \in FuncResults :
          /\ last_call' = <<[raised |-> FALSE, value |-> result]>>
          /\ IF result # None
             THEN /\ cache' = set_cache(cache, w.now, RetryKey, result)
                  /\ last_set' = Append(last_set,
                        [key |-> RetryKey, value |-> result, timestamp |-> w.now])
             ELSE UNCHANGED <<cache, last_set>>
    /\ pc' = "returned"

RetryFuncReturns ==
    /\ pc = "attempt"
    /\ FuncReturnsOutcome(wait_for_slot(lim, now))
    /\ UNCHANGED <<threads, lock, cache_lock, instance, got, response, last_error, suspects, topology,
                   api_key, api_configured, alarms, msg_map, results, llm_needed,
                   batch_at, output, run, prev_output, local_result, dispatched>>

\* the caller calls again with the same arguments: at once, just inside the
\* ttl of an entry stored at the end of the call, or at the ttl
RetryAgain ==
    /\ pc \in {"returned", "raised"}
    /\ run < MaxRuns
    /\ run' = run + 1
    /\ \E pause \in {0, Ds(cache_ttl) - 1, Ds(cache_ttl)} : now' = now + pause
    /\ pc' = "retry"
    /\ UNCHANGED <<aux, topology, api_key, api_configured, lim, cache, alarms,
                   msg_map, results, llm_needed, batch_at, stack, output,
                   oracle_log, prev_output, local_result, last_call, dispatched>>

NextRetry ==
    \/ RetryDecorate
    \/ RetryCall
    \/ RetrySlotRefused
    \/ RetryFuncRaises
    \/ RetryFuncReturns
    \/ RetryAgain

SpecRetry == InitRetry /\ [][NextRetry]_vars

(***************************************************************************)
(* The two locks of GlobalRateLimiter.  Threads call wait_for_slot,         *)
(* record_request, get_cache, set_cache and get_stats on the shared         *)
(* instance; a step is the acquisition of a lock, or a `with` block up to   *)
(* the release of its lock, or a stretch of code that holds no lock.  The   *)
(* clock stands still: the timeout of wait_for_slot is reached after        *)
(* MaxSleeps sleeps.  The pc of a thread:                                   *)
(*   "idle"           outside the limiter                                   *)
(*   "ws_acquire"     at `with self._request_lock`, line 147                *)
(*   "ws_checks"      inside that block, lines 148-149                      *)
(*   "ws_sleep"       in time.sleep, line 161 (lines 151-158 read the deque *)
(*                    without a lock)                                       *)
(*   "rr_acquire", "rr_body"       record_request, lines 168-171            *)
(*   "gc_clean_acquire", "gc_clean"  _clean_expired_cache called by         *)
(*                    get_cache, lines 93 and 83-89                         *)
(*   "gc_acquire", "gc_read"       get_cache, lines 94-99                   *)
(*   "sc_acquire", "sc_body"       set_cache, lines 103-108                 *)
(*   "gs_acquire", "gs_body"       get_stats, lines 176-187                 *)
(***************************************************************************)
\* a thread makes at most MaxLockOps calls and sleeps at most MaxSleeps times
\* in a call of wait_for_slot
MaxLockOps == 2
MaxSleeps == 1

LimiterOps ==
    {"ws_acquire", "rr_acquire", "gc_clean_acquire", "sc_acquire", "gs_acquire"}

\* the pcs inside a block under _request_lock, and under _cache_lock
RequestSections == {"ws_checks", "rr_body", "gs_body"}
CacheSections == {"gc_clean", "gc_read", "sc_body"}

LockKey == "k1"

InitLocks ==
    /\ InitCommon
    /\ InitAux
    /\ api_key = FALSE
    /\ alarms = <<>>
    /\ msg_map = <<>>
    /\ lim \in {FreshLimiter, FullWindow, DailySpent}
    /\ pc = "locks"

\* what no operation of the limiter changes
LockFrame == <<engine, pc, run, now, instance>>

\* a thread calls one of the operations
LockCall ==
    \E t \in Threads, op \in LimiterOps :
        /\ pc = "locks"
        /\ threads[t].pc = "idle"
        /\ threads[t].calls < MaxLockOps
        /\ threads' = [threads EXCEPT ![t].pc = op, ![t].wake = 0,
                                      ![t].calls = threads[t].calls + 1]
        /\ UNCHANGED <<LockFrame, lim, cache, stamps, lock, last_set, got, cache_lock>>

\* `with self._request_lock` entered: lines 147, 168, 176
AcquireRequestLock ==
    \E t \in Threads :
        /\ threads[t].pc \in {"ws_acquire", "rr_acquire", "gs_acquire"}
        /\ lock = 0
        /\ lock' = t
        /\ threads' = At(t, CASE threads[t].pc = "ws_acquire" -> "ws_checks"
                              [] threads[t].pc = "rr_acquire" -> "rr_body"
                              [] OTHER -> "gs_body")
        /\ UNCHANGED <<LockFrame, lim, cache, stamps, last_set, got, cache_lock>>

\* `with self._cache_lock` entered: lines 83, 94, 103
AcquireCacheLock ==
    \E t \in Threads :
        /\ threads[t].pc \in {"gc_clean_acquire", "gc_acquire", "sc_acquire"}
        /\ cache_lock = 0
        /\ cache_lock' = t
        /\ threads' = At(t, CASE threads[t].pc = "gc_clean_acquire" -> "gc_clean"
                              [] threads[t].pc = "gc_acquire" -> "gc_read"
                              [] OTHER -> "sc_body")
        /\ UNCHANGED <<LockFrame, lim, cache, stamps, lock, last_set, got>>

\* what the block of lines 147-149 leaves, w being the outcome of its two
\* checks, but the lock kept over the sleep
AfterChecksHolding(t, w) ==
    /\ lim' = w.lim
    /\ lock' = IF w.ok THEN 0 ELSE t
    /\ threads' = IF w.ok THEN At(t, "idle")
                  ELSE [threads EXCEPT ![t].pc = "ws_sleep",
                                       ![t].wake = threads[t].wake + 1]

\* what the block of lines 147-149 leaves, w being the outcome of its two
\* checks: return True from inside the block, or the block left and the
\* sleep of lines 151-161 begun
AfterChecks(t, w) ==
    /\ lim' = w.lim
    /\ lock' = 0
    /\ threads' = IF w.ok THEN At(t, "idle")
                  ELSE [threads EXCEPT ![t].pc = "ws_sleep",
                                       ![t].wake = threads[t].wake + 1]

\* if self._check_daily_limit() and self._check_minute_limit(), line 148
WaitChecks ==
    \E t \in Threads :
        /\ threads[t].pc = "ws_checks"
        /\ AfterChecks(t, CheckLimits(lim, now))
        /\ UNCHANGED <<LockFrame, cache, stamps, last_set, got, cache_lock>>

\* time.sleep over, line 161: the loop of line 146 goes on, or the timeout
\* is reached and wait_for_slot returns False, line 164
WaitWake ==
    \E t \in Threads :
        /\ threads[t].pc = "ws_sleep"
        /\ threads' = At(t, IF threads[t].wake < MaxSleeps + 1
                            THEN "ws_acquire" ELSE "idle")
        /\ UNCHANGED <<LockFrame, lim, cache, stamps, lock, last_set, got, cache_lock>>

\* record_request, lines 169-171, and the end of its block
RecordBody ==
    \E t \in Threads :
        /\ threads[t].pc = "rr_body"
        /\ lim' = record_request(lim, now)
        /\ stamps' = Append(stamps, now)
        /\ lock' = 0
        /\ threads' = At(t, "idle")
        /\ UNCHANGED <<LockFrame, cache, last_set, got, cache_lock>>

\* get_stats, lines 176-187, and the end of its block: len(self._cache) is
\* read at line 186 without _cache_lock
StatsBody ==
    \E t \in Threads :
        /\ threads[t].pc = "gs_body"
        /\ lock' = 0
        /\ threads' = At(t, "idle")
        /\ UNCHANGED <<LockFrame, lim, cache, stamps, last_set, got, cache_lock>>

\* _clean_expired_cache, lines 83-89, and the end of its block; get_cache
\* goes on to line 94
CleanBody ==
    \E t \in Threads :
        /\ threads[t].pc = "gc_clean"
        /\ cache' = _clean_expired_cache(cache, now)
        /\ cache_lock' = 0
        /\ threads' = At(t, "gc_acquire")
        /\ UNCHANGED <<LockFrame, lim, stamps, lock, last_set, got>>

\* what get_cache returns, g being the lookup
Fetched(g) == IF g.found THEN <<g.value>> ELSE <<>>

\* get_cache, lines 95-99, and the end of its block
ReadBody ==
    \E t \in Threads :
        /\ threads[t].pc = "gc_read"
        /\ got' = Fetched(get_cache(cache, now, LockKey))
        /\ cache_lock' = 0
        /\ threads' = At(t, "idle")
        /\ UNCHANGED <<LockFrame, lim, cache, stamps, lock, last_set>>

\* set_cache, lines 104-108, and the end of its block
SetBody ==
    \E t \in Threads :
        /\ threads[t].pc = "sc_body"
        /\ cache' = set_cache(cache, now, LockKey, "v1")
        /\ last_set' = Append(last_set, [key |-> LockKey, value |-> "v1",
                                        timestamp |-> now])
        /\ cache_lock' = 0
        /\ threads' = At(t, "idle")
        /\ UNCHANGED <<LockFrame, lim, stamps, lock, got>>

NextLocks ==
    \/ LockCall
    \/ AcquireRequestLock
    \/ AcquireCacheLock
    \/ WaitChecks
    \/ WaitWake
    \/ RecordBody
    \/ StatsBody
    \/ CleanBody
    \/ ReadBody
    \/ SetBody

SpecLocks == InitLocks /\ [][NextLocks]_vars

(***************************************************************************)
(* The construction of the shared instance.  Threads call                   *)
(* GlobalRateLimiter() and then use what they got: record_request and       *)
(* set_cache.  __new__ runs under the class lock, lines 59-63, and is one   *)
(* step; __init__ takes no lock, and each of its statements is a step.      *)
(* The pc of a thread:                                                      *)
(*   "idle"       outside the limiter, holding no instance                  *)
(*   "new"        at GlobalRateLimiter(), before __new__                    *)
(*   "init_66"    at `if self._initialized`, line 66                        *)
(*   "init_69" ... "init_76"   at that statement of __init__                *)
(*   "ready"      GlobalRateLimiter() has returned the instance             *)
(***************************************************************************)
\* a thread constructs at most MaxConstructs times; MaxUses requests are
\* recorded and MaxUses cache entries stored in all
MaxConstructs == 2
MaxUses == 2

\* no instance yet: the class attribute _instance is None, line 55
NoInstance == [exists |-> FALSE, initialized |-> FALSE, inits |-> 0]

InitConstruct ==
    /\ InitCommon
    /\ api_key = FALSE
    /\ alarms = <<>>
    /\ msg_map = <<>>
    /\ lim = FreshLimiter
    /\ stamps = <<>>
    /\ threads = [t \in Threads |-> IdleThread]
    /\ lock = 0
    /\ cache_lock = 0
    /\ instance = NoInstance
    /\ last_set = <<>>
    /\ got = <<>>
    /\ response = <<>>
    /\ last_error = <<>>
    /\ suspects = <<>>
    /\ pc = "construct"

ConstructFrame == <<engine, pc, run, got>>

\* a thread calls GlobalRateLimiter()
ConstructCall ==
    \E t \in Threads :
        /\ pc = "construct"
        /\ threads[t].pc = "idle"
        /\ threads[t].calls < MaxConstructs
        /\ threads' = [threads EXCEPT ![t].pc = "new",
                                      ![t].calls = threads[t].calls + 1]
        /\ UNCHANGED <<ConstructFrame, lim, cache, now, stamps, lock,
                       cache_lock, instance, last_set>>

\* __new__, lines 59-63: under the class lock, the instance is created with
\* _initialized = False when there is none
New ==
    \E t \in Threads :
        /\ threads[t].pc = "new"
        /\ instance' = IF instance.exists THEN instance
                       ELSE [instance EXCEPT !.exists = TRUE,
                                             !.initialized = FALSE]
        /\ threads' = At(t, "init_66")
        /\ UNCHANGED <<ConstructFrame, lim, cache, now, stamps, lock,
                       cache_lock, last_set>>

\* if self._initialized: return, lines 66-67; inits counts the calls of
\* __init__ that go on to set the state
InitTest(t) ==
    /\ threads' = At(t, IF instance.initialized THEN "ready" ELSE "init_69")
    /\ instance' = IF instance.initialized THEN instance
                   ELSE [instance EXCEPT !.inits = instance.inits + 1]

InitCheck ==
    \E t \in Threads :
        /\ threads[t].pc = "init_66"
        /\ InitTest(t)
        /\ UNCHANGED <<ConstructFrame, lim, cache, now, stamps, lock,
                       cache_lock, last_set>>

\* the statements of __init__ after the test, and where each one leads
InitStatements ==
    [init_69 |-> "init_70", init_70 |-> "init_71", init_71 |-> "init_72",
     init_72 |-> "init_73", init_73 |-> "init_74", init_74 |-> "init_75",
     init_75 |-> "init_76", init_76 |-> "ready"]

\* one statement of lines 69-76: config (no state of the model), the
\* deque, the daily counter, the reset time, the cache, the two locks (a
\* new Lock is free, whoever holds the one it replaces), the flag
InitStatement ==
    \E t \in Threads :
        LET at == threads[t].pc
        IN  /\ at \in DOMAIN InitStatements
            /\ lim' = CASE at = "init_70" -> [lim EXCEPT !.request_times = <<>>]
                        [] at = "init_71" -> [lim EXCEPT !.daily_count = 0]
                        [] at = "init_72" -> [lim EXCEPT !.daily_reset_time = now]
                        [] OTHER -> lim
            /\ cache' = IF at = "init_73" THEN {} ELSE cache
            /\ cache_lock' = IF at = "init_74" THEN 0 ELSE cache_lock
            /\ lock' = IF at = "init_75" THEN 0 ELSE lock
            /\ instance' = IF at = "init_76"
                           THEN [instance EXCEPT !.initialized = TRUE]
                           ELSE instance
            /\ threads' = At(t, InitStatements[at])
            /\ UNCHANGED <<ConstructFrame, now, stamps, last_set>>

\* record_request on the instance obtained, lines 166-171
UseRecord ==
    \E t \in Threads :
        /\ threads[t].pc = "ready"
        /\ Len(stamps) < MaxUses
        /\ lock = 0
        /\ lim' = record_request(lim, now)
        /\ stamps' = Append(stamps, now)
        /\ UNCHANGED <<ConstructFrame, cache, now, threads, lock, cache_lock,
                       instance, last_set>>

\* set_cache on the instance obtained, lines 101-108
UseSetCache ==
    \E t \in Threads, k \in CacheKeySet :
        /\ threads[t].pc = "ready"
        /\ Len(last_set) < MaxUses
        /\ cache_lock = 0
        /\ cache' = set_cache(cache, now, k, "v1")
        /\ last_set' = Append(last_set, [key |-> k, value |-> "v1",
                                         timestamp |-> now])
        /\ UNCHANGED <<ConstructFrame, lim, now, stamps, threads, lock,
                       cache_lock, instance>>

\* the thread lets go of the instance; it may construct again
UseDone ==
    \E t \in Threads :
        /\ threads[t].pc = "ready"
        /\ threads' = At(t, "idle")
        /\ UNCHANGED <<ConstructFrame, lim, cache, now, stamps, lock,
                       cache_lock, instance, last_set>>

NextConstruct ==
    \/ ConstructCall
    \/ New
    \/ InitCheck
    \/ InitStatement
    \/ UseRecord
    \/ UseSetCache
    \/ UseDone

SpecConstruct == InitConstruct /\ [][NextConstruct]_vars

(***************************************************************************)
(* Threads that each repeat wait_for_slot and record_request on the shared  *)
(* limiter, over more than one window of 60 s.  The block under             *)
(* _request_lock of lines 147-149 is one step, record_request another; a    *)
(* thread whose check fails sleeps and tries again, or gives up, at any     *)
(* later moment.  The pc of a thread: "idle" outside the block, "true"      *)
(* between a check that passed and its record_request.  A thread keeps the  *)
(* time of its last check (now) and, as history, how many requests had      *)
(* been recorded when it was made (seen).                                   *)
(***************************************************************************)
\* a thread enters the block of line 147 at most MaxRounds times; the clock
\* stops MaxWindowClock tenths of a second after T0
MaxRounds == 3
MaxWindowClock == 900

\* a third and three quarters of a window
WindowTicks == {Ds(20), Ds(45)}

\* the window full, its oldest request 50 s old and the others 10 s old
RollingWindow ==
    [request_times |-> [i \in 1..EffectiveLimit(rpm) |->
                           IF i = 1 THEN T0 - Ds(50) ELSE T0 - Ds(10)],
     daily_count |-> EffectiveLimit(rpm),
     daily_reset_time |-> T0 - Ds(600)]

InitOvershoot ==
    /\ InitCommon
    /\ api_key = FALSE
    /\ alarms = <<>>
    /\ msg_map = <<>>
    /\ lim \in {FreshLimiter, NearFull, FullWindow, RollingWindow}
    /\ stamps = lim.request_times
    /\ threads = [t \in Threads |->
                     [pc |-> "idle", now |-> 0, seen |-> 0, calls |-> 0]]
    /\ lock = 0
    /\ cache_lock = 0
    /\ instance = Constructed
    /\ last_set = <<>>
    /\ got = <<>>
    /\ response = <<>>
    /\ last_error = <<>>
    /\ suspects = <<>>
    /\ pc = "overshoot"

\* the block of lines 147-149 run by t, w being the outcome of its checks:
\* return True, or the block left for the sleep of lines 151-161
Checked(t, w) ==
    /\ lim' = w.lim
    /\ threads' = [threads EXCEPT
          ![t] = [pc |-> IF w.ok THEN "true" ELSE "idle", now |-> now,
                  seen |-> Len(stamps), calls |-> threads[t].calls + 1]]

\* with self._request_lock: if self._check_daily_limit() and
\* self._check_minute_limit(): return True
SlotCheck ==
    \E t \in Threads :
        /\ pc = "overshoot"
        /\ threads[t].pc = "idle"
        /\ threads[t].calls < MaxRounds
        /\ Checked(t, CheckLimits(lim, now))
        /\ UNCHANGED <<ThreadFrame, now, stamps, lock>>

\* record_request after wait_for_slot returned True, lines 166-171
SlotRecord ==
    \E t \in Threads :
        /\ pc = "overshoot"
        /\ threads[t].pc = "true"
        /\ lim' = record_request(lim, now)
        /\ stamps' = Append(stamps, now)
        /\ threads' = At(t, "idle")
        /\ UNCHANGED <<ThreadFrame, now, lock>>

\* time passes
WindowTick ==
    /\ pc = "overshoot"
    /\ \E d \in WindowTicks :
          /\ now + d <= T0 + MaxWindowClock
          /\ now' = now + d
    /\ UNCHANGED <<ThreadFrame, lim, stamps, threads, lock>>

NextOvershoot ==
    \/ SlotCheck
    \/ SlotRecord
    \/ WindowTick

SpecOvershoot == InitOvershoot /\ [][NextOvershoot]_vars

(***************************************************************************)
(* Properties.  Texts are classified here by the keywords the               *)
(* specification names, independently of the operators above.               *)
(***************************************************************************)
Returned == pc = "done"
Raised == pc = "raised"

OutputCount(id) == Cardinality({i \in 1..Len(output) : output[i].id = id})
OutputIds == {output[i].id : i \in 1..Len(output)}
OutputOf(id) == {output[i] : i \in {j \in 1..Len(output) : output[j].id = id}}

HasKeyword(m, keywords) ==
    \E k \in keywords : Contains(Chars(k), ToLower(Chars(m)))

ConnectivityLossTexts ==
    {m \in AlertTexts :
        HasKeyword(m, {"connection lost", "link down", "port down", "unreachable"})}
UnreachableTexts == {m \in AlertTexts : HasKeyword(m, {"unreachable"})}

ReportsAny(messages, texts) == \E i \in 1..Len(messages) : messages[i] \in texts

ParentOf(d) ==
    IF \E i \in 1..Len(topology) : topology[i].id = d
    THEN topology[CHOOSE i \in 1..Len(topology) : topology[i].id = d].parent_id
    ELSE NoParent
ChildrenOf(p) ==
    {topology[i].id : i \in {j \in 1..Len(topology) : topology[j].parent_id = p}}
LossChildren(p) ==
    {c \in ChildrenOf(p) : ReportsAny(Get(msg_map, c), ConnectivityLossTexts)}

\* p has no evidence of its own while at least 2 of its children, at least
\* half of them, report a connectivity loss
SilentParent(p) ==
    /\ p # NoParent
    /\ p \notin Keys(msg_map)
    /\ Cardinality(LossChildren(p)) >= 2
    /\ 2 * Cardinality(LossChildren(p)) >= Cardinality(ChildrenOf(p))

SilentChild(d, messages) ==
    SilentParent(ParentOf(d)) /\ ReportsAny(messages, ConnectivityLossTexts)
Cascaded(d, messages) ==
    ReportsAny(messages, UnreachableTexts) /\ ParentOf(d) \in Keys(msg_map)

\* the device was in no batch handed to the oracle and is not waiting for one
NeverSentToOracle(d) ==
    /\ d \notin Keys(llm_needed)
    /\ \A k \in 1..Len(oracle_log) : d \notin Keys(oracle_log[k])

\* the alarms analyze() keeps: device_id and message both truthy
ValidAlarmIds ==
    {alarms[i].device_id :
        i \in {j \in 1..Len(alarms) : alarms[j].device_id # "" /\ alarms[j].message # ""}}
CarriedIds ==
    {alarms[i].device_id : i \in {j \in 1..Len(alarms) : alarms[j].device_id # ""}}

\* C1 (as stated): when infer_root_cause returns, the list holds exactly one
\* result per key of msg_map and none for any other device, and after
\* analyze() exactly one result for every device_id carried by an input alarm.
C1_TotalCoverageAllAlarms ==
    Returned =>
        /\ \A d \in Keys(msg_map) : OutputCount(d) = 1
        /\ OutputIds \subseteq Keys(msg_map)
        /\ \A d \in CarriedIds : OutputCount(d) = 1

\* C1 (amended): when infer_root_cause returns, the list holds exactly one
\* result per key of msg_map and none for any other device; after analyze()
\* exactly one result for every device_id carried by an input alarm whose
\* device_id and message are both non-empty, and for no other device.
C1_TotalCoverage ==
    Returned =>
        /\ \A d \in Keys(msg_map) : OutputCount(d) = 1
        /\ OutputIds \subseteq Keys(msg_map)
        /\ Len(output) = Len(msg_map)
        /\ alarms # <<>> => OutputIds = ValidAlarmIds

\* an analyze() call of three alarms, one of them dropped, whose two devices
\* were covered after the oracle answered for a batch
C1_Witness ==
    /\ Returned
    /\ Len(alarms) = 3
    /\ CarriedIds # ValidAlarmIds
    /\ Len(output) = 2
    /\ oracle_log # <<>>

\* C2: infer_root_cause and analyze never raise.
C2_NeverRaises == ~Raised

\* C3: when a parent has no evidence of its own and at least 2 of its
\* children, at least half of them, report a connectivity loss, the returned
\* list holds a result for the parent with probability 0.8 and tier 1.
C3_SilentParentReported ==
    Returned =>
        \A p \in TopologyIds(topology) :
            SilentParent(p) =>
                \E i \in 1..Len(output) :
                    output[i].id = p /\ output[i].prob = 80 /\ output[i].tier = 1

\* C4: a device whose parent is a silent-failure suspect and which has a
\* connectivity-loss message is reported with probability 0.4 and tier 3 as
\* a downstream symptom, whatever its other messages, and is never given to
\* the local rules' verdict or to the oracle.
C4_SilentChild ==
    \A i \in 1..Len(msg_map) :
        SilentChild(msg_map[i].id, msg_map[i].messages) =>
            /\ NeverSentToOracle(msg_map[i].id)
            /\ Returned =>
                /\ OutputOf(msg_map[i].id) # {}
                /\ \A e \in OutputOf(msg_map[i].id) :
                      /\ e.prob = 40
                      /\ e.tier = 3
                      /\ e.type = "Network/ConnectionLost"

\* a silent-failure child that also reports "Device Down" has been reported
C4_Witness ==
    /\ Returned
    /\ \E i \in 1..Len(msg_map) :
          /\ SilentChild(msg_map[i].id, msg_map[i].messages)
          /\ \E k \in 1..Len(msg_map[i].messages) : msg_map[i].messages[k] = "Device Down"
          /\ OutputOf(msg_map[i].id) # {}

\* C5: a device that reports an "unreachable" message and whose parent is a
\* key of the same msg_map is reported with probability 0.2 and tier 3, and
\* is given neither to the local rules' verdict nor to the oracle.
C5_CascadeSuppression ==
    \A i \in 1..Len(msg_map) :
        Cascaded(msg_map[i].id, msg_map[i].messages) =>
            /\ NeverSentToOracle(msg_map[i].id)
            /\ Returned =>
                /\ OutputOf(msg_map[i].id) # {}
                /\ \A e \in OutputOf(msg_map[i].id) :
                      /\ e.prob = 20
                      /\ e.tier = 3
                      /\ e.type = "Network/Unreachable"

\* a cascaded device that also reports "Device Down" has been reported, and
\* the oracle was asked about its parent
C5_Witness ==
    /\ Returned
    /\ oracle_log # <<>>
    /\ \E i \in 1..Len(msg_map) :
          /\ Cascaded(msg_map[i].id, msg_map[i].messages)
          /\ \E k \in 1..Len(msg_map[i].messages) : msg_map[i].messages[k] = "Device Down"
          /\ OutputOf(msg_map[i].id) # {}

Suppressed(d, messages) == SilentChild(d, messages) \/ Cascaded(d, messages)

Reports(messages, text) == \E k \in 1..Len(messages) : messages[k] = text

\* C6 (as stated): every device whose evidence contains "Device Down" is
\* reported with probability 0.9 and tier 1, whatever its other messages.
C6_DeviceDownAlways ==
    Returned =>
        \A i \in 1..Len(msg_map) :
            Reports(msg_map[i].messages, "Device Down") =>
                /\ OutputOf(msg_map[i].id) # {}
                /\ \A e \in OutputOf(msg_map[i].id) : e.prob = 90 /\ e.tier = 1

\* C6 (amended): every device whose evidence contains "Device Down" and which
\* is not demoted as a silent-failure child or by cascade suppression is
\* reported with probability 0.9 and tier 1, whatever its other messages.
C6_DeviceDown ==
    Returned =>
        \A i \in 1..Len(msg_map) :
            /\ Reports(msg_map[i].messages, "Device Down")
            /\ ~Suppressed(msg_map[i].id, msg_map[i].messages)
            => /\ OutputOf(msg_map[i].id) # {}
               /\ \A e \in OutputOf(msg_map[i].id) :
                     e.prob = 90 /\ e.tier = 1 /\ e.type = "Hardware/Physical"

\* a device reporting a PSU failure first and "Device Down" second, not
\* suppressed, has been reported
C6_Witness ==
    /\ Returned
    /\ \E i \in 1..Len(msg_map) :
          /\ msg_map[i].messages = <<"Power Supply 1 Failed", "Device Down">>
          /\ ~Suppressed(msg_map[i].id, msg_map[i].messages)
          /\ OutputOf(msg_map[i].id) # {}

SinglePsuFailure(messages) ==
    messages # <<>> /\ \A k \in 1..Len(messages) : messages[k] = "Power Supply 1 Failed"

\* the psu_count of the device's metadata; -1 when absent or not a number
MetadataPsuCount(d) == IntOf(_get_device_info(topology, d).psu_count)
RedundancyIsPsu(d) ==
    _get_device_info(topology, d).redundancy_type \in {"PSU", "psu", "Psu"}

PsuVerdict(d, redundant) ==
    /\ OutputOf(d) # {}
    /\ \A e \in OutputOf(d) :
          IF redundant
          THEN e.prob = 70 /\ e.tier = 2 /\ e.type = "Hardware/Redundancy"
          ELSE e.prob = 90 /\ e.tier = 1 /\ e.type = "Hardware/Physical"

\* C7 (as stated): a non-suppressed device whose evidence is a single
\* power-supply failure is WARNING "Hardware/Redundancy" with probability 0.7
\* when its psu_count is >= 2, and CRITICAL with probability 0.9 when its
\* psu_count is 1 or unknown.
C7_PsuRuleByCount ==
    Returned =>
        \A i \in 1..Len(msg_map) :
            /\ SinglePsuFailure(msg_map[i].messages)
            /\ ~Suppressed(msg_map[i].id, msg_map[i].messages)
            => PsuVerdict(msg_map[i].id, MetadataPsuCount(msg_map[i].id) >= 2)

\* C7 (amended): ... WARNING "Hardware/Redundancy" with probability 0.7 when
\* its psu_count is >= 2, or is unknown (absent or not a number) while its
\* redundancy_type is "PSU"; CRITICAL with probability 0.9 otherwise.
C7_PsuRule ==
    Returned =>
        \A i \in 1..Len(msg_map) :
            /\ SinglePsuFailure(msg_map[i].messages)
            /\ ~Suppressed(msg_map[i].id, msg_map[i].messages)
            => PsuVerdict(msg_map[i].id,
                          \/ MetadataPsuCount(msg_map[i].id) >= 2
                          \/ /\ MetadataPsuCount(msg_map[i].id) = -1
                             /\ RedundancyIsPsu(msg_map[i].id))

\* a PSU failure has been reported for a device with psu_count 2, for one
\* with psu_count 1 and for one with redundancy_type "psu" and no psu_count
C7_Witness ==
    /\ Returned
    /\ \A d \in {"AP1", "AP2", "SW1"} :
          SinglePsuFailure(Get(msg_map, d)) /\ OutputOf(d) # {}

\* the predicate of rule i of _apply_local_rules on the joined messages
RuleMatches(i, joined) ==
    CASE i = 1 -> HardFail(joined)
      [] i = 2 -> psu_single_fail(ToLower(joined))
      [] i = 3 -> fan_fail(ToLower(joined))
      [] i = 4 -> mem_symptom(ToLower(joined))
      [] i = 5 -> link_down(ToLower(joined))
      [] i = 6 -> bgp_unstable(ToLower(joined))

\* the reasons by which the verdicts of rule i are known
RuleReasons(i) ==
    CASE i = 1 -> {critical_patterns[k].reason : k \in 1..Len(critical_patterns)}
      [] i = 2 -> {"Single PSU failure with redundancy (local safety rule).",
                   "Single PSU failure without redundancy (local safety rule)."}
      [] i = 3 -> {"Fan failure with overheat/thermal symptom detected (local safety rule).",
                   "Fan failure detected. Service likely continues but risk of thermal escalation (local safety rule)."}
      [] i = 4 -> {"Memory leak/high with OOM/crash symptom detected (local safety rule).",
                   "Memory high/leak symptom detected. Likely degraded but not down yet (local safety rule)."}
      [] i = 5 -> {"Interface/Link down detected (local rule)."}
      [] i = 6 -> {"BGP instability detected (local rule)."}

MatchingRules(messages) == {i \in 1..6 : RuleMatches(i, Joined(messages))}

\* C8: for a non-empty message list _apply_local_rules returns the verdict of
\* the first rule, in the order hard-fail, single PSU failure, fan failure,
\* memory, link down, BGP, whose predicate matches the joined messages, and
\* None exactly when no rule matches.
C8_FirstMatch ==
    (pc = "ruled" /\ msg_map[1].messages # <<>>) =>
        LET m == MatchingRules(msg_map[1].messages)
        IN  IF m = {}
            THEN local_result = NoResult
            ELSE /\ local_result # NoResult
                 /\ local_result.device_id = msg_map[1].id
                 /\ local_result.reason \in RuleReasons(Min(m))

\* the rules were applied to messages matching the fan rule and a later rule
\* but none before
C8_Witness ==
    /\ pc = "ruled"
    /\ msg_map[1].messages # <<>>
    /\ Min(MatchingRules(msg_map[1].messages) \cup {7}) = 3
    /\ Cardinality(MatchingRules(msg_map[1].messages)) >= 2
    /\ local_result.reason \in RuleReasons(3)

\* code-point order of the characters of device ids
AsciiOrder ==
    Chars("0123456789") \o Chars("ABCDEFGHIJKLMNOPQRSTUVWXYZ")
    \o Chars("abcdefghijklmnopqrstuvwxyz")
Ord(c) == CHOOSE i \in 1..Len(AsciiOrder) : AsciiOrder[i] = c

\* a <= b in lexicographic order
LexLeq(a, b) ==
    LET diff == {i \in 1..Min({Len(a), Len(b)}) : a[i] # b[i]}
    IN  IF diff = {} THEN Len(a) <= Len(b)
        ELSE Ord(a[Min(diff)]) < Ord(b[Min(diff)])

\* C9: the returned list is sorted by probability descending, results of
\* equal probability by tier ascending and then by device_id in
\* lexicographic order.
C9_RankingOrder ==
    Returned =>
        \A i, j \in 1..Len(output) :
            i < j =>
                \/ output[i].prob > output[j].prob
                \/ /\ output[i].prob = output[j].prob
                   /\ \/ output[i].tier < output[j].tier
                      \/ /\ output[i].tier = output[j].tier
                         /\ LexLeq(Chars(output[i].id), Chars(output[j].id))

\* the tier the mapping gives a probability (hundredths)
TierOf(prob) == IF prob > 80 THEN 1 ELSE IF prob > 60 THEN 2 ELSE 3

\* C10: every result infer_root_cause emits has tier 1 iff its probability
\* is above 0.8, tier 2 iff it is above 0.6 and at most 0.8, tier 3 otherwise.
C10_ProbabilityToTier ==
    /\ \A i \in 1..Len(results) : results[i].tier = TierOf(results[i].prob)
    /\ \A i \in 1..Len(output) : output[i].tier = TierOf(output[i].prob)

\* a returned list with a cascade-suppressed result, a local-rule WARNING
\* and a result the oracle classified as normal
C10_Witness ==
    /\ Returned
    /\ oracle_log # <<>>
    /\ {20, 30, 70} \subseteq {output[i].prob : i \in 1..Len(output)}

(***************************************************************************)
(* Claims about the rate limiter and the cache.                             *)
(***************************************************************************)
\* the entries of `times` inside the 60 s window that ends at t, a request
\* being in the window until _check_minute_limit would pop it (age > 60)
InWindow(times, t) ==
    {i \in DOMAIN times : times[i] <= t /\ ~(t - times[i] > Ds(60))}

\* C11: requests being issued one after another as wait_for_slot followed by
\* record_request, no 60 s window holds more than L = int(rpm * safety_margin)
\* recorded timestamps, and wait_for_slot has returned True only when fewer
\* than L of the recorded timestamps are still inside the window: the
\* (L+1)-th request of a window waits until an earlier one has aged out.
C11_SequentialRateLimit ==
    /\ \A i \in DOMAIN stamps :
          Cardinality(InWindow(stamps, stamps[i])) <= EffectiveLimit(rpm)
    /\ pc = "record" =>
          Cardinality(InWindow(stamps, now)) < EffectiveLimit(rpm)

\* the request after a full window has been recorded: the oldest stamp had
\* left the window, the second oldest is still in it
C11_Witness ==
    /\ pc = "idle"
    /\ Len(stamps) = EffectiveLimit(rpm) + 1
    /\ stamps[Len(stamps)] - stamps[1] > Ds(60)
    /\ stamps[Len(stamps)] - stamps[2] <= Ds(60)
    /\ Cardinality(InWindow(stamps, now)) = EffectiveLimit(rpm)

\* C12: wait_for_slot never raises, whatever the other threads do on the
\* shared limiter meanwhile.
C12_NeverRaises ==
    \A t \in Threads : threads[t].pc # "raised"

\* the second call has returned, less than the cache ttl after the first
\* one began, and the first call had the credential (none of its verdicts
\* is the one of lines 343-354)
SecondCallWithinTtl ==
    /\ pc = "done"
    /\ run = 2
    /\ now - T0 < Ds(cache_ttl)
    /\ \A i \in 1..Len(prev_output) :
          prev_output[i].reason # "API key not configured. Manual analysis required."

\* no batch was given to the oracle twice
OracleCalledOncePerBatch ==
    \A i, j \in 1..Len(oracle_log) : oracle_log[i] = oracle_log[j] => i = j

\* C13: a second call with the same batch payload, made within the cache
\* ttl of the first, returns what the first returned, and the payload is
\* given to the oracle at most once over the two calls, whatever the
\* outcome of the first oracle invocation was.
C13_CacheIdempotence ==
    SecondCallWithinTtl =>
        /\ output = prev_output
        /\ OracleCalledOncePerBatch

\* the set_cache calls made for key k, and the latest of them
SetsOf(k) == {i \in 1..Len(last_set) : last_set[i].key = k}
LatestSet(k) == last_set[CHOOSE i \in SetsOf(k) : \A j \in SetsOf(k) : j <= i]

\* C14: get_cache(k) returns the value of the most recent set_cache(k, v)
\* when that call was made less than cache_ttl ago, and None when k was
\* never set or its most recent set_cache is cache_ttl or more old.
C14_TtlCache ==
    \A n \in 1..Len(got) :
        pc = "cached" =>
        IF SetsOf(got[n].key) # {}
           /\ now - LatestSet(got[n].key).timestamp < Ds(cache_ttl)
        THEN got[n].found /\ got[n].value = LatestSet(got[n].key).value
        ELSE ~got[n].found

\* get_cache has returned the second of two values set for a key, the first
\* one set cache_ttl or more before the call
C14_Witness ==
    /\ pc = "cached"
    /\ got # <<>>
    /\ got[1].found
    /\ \E i, j \in SetsOf(got[1].key) :
          /\ i < j
          /\ last_set[i].value # last_set[j].value
          /\ now - last_set[i].timestamp >= Ds(cache_ttl)
          /\ got[1].value = last_set[j].value

(***************************************************************************)
(* Claims about _analyze_batch_with_llm and the batching.                   *)
(***************************************************************************)
\* the call that returned last: its argument and the dict it returned
LastBatch == last_call[1].devices_alerts
LastValue == last_call[1].value

\* the dict `value` is, key by key and in the order of the batch, the fixed
\* verdict WARNING / confidence for every device of the batch, its reason
\* holding the words `phrase`
FixedVerdicts(devices_alerts, value, confidence, phrase) ==
    /\ Len(value) = Len(devices_alerts)
    /\ \A i \in 1..Len(value) :
          /\ value[i].device_id = devices_alerts[i].id
          /\ value[i].status = "WARNING"
          /\ value[i].confidence = confidence
          /\ HasKeyword(value[i].reason, {phrase})

\* C15: a call of _analyze_batch_with_llm made with no credential configured
\* returns, for every device of the batch, the verdict WARNING with
\* confidence 0.3 and "manual analysis required", and leaves the request
\* window, the daily counter, the cache, the clock and the list of oracle
\* invocations as they were.
C15_NoCredential ==
    [][(InCall /\ ~Configured) =>
          /\ last_call' # <<>>
          /\ last_call'[1].devices_alerts = Top.devices_alerts
          /\ FixedVerdicts(Top.devices_alerts, last_call'[1].value, 30,
                           "manual analysis required")
          /\ UNCHANGED <<lim, cache, now, oracle_log>>]_vars

\* a batch of two devices was answered without a credential while the
\* request window was full
C15_Witness ==
    /\ pc = "done"
    /\ ~api_key
    /\ last_call # <<>>
    /\ Len(LastValue) = 2
    /\ FixedVerdicts(LastBatch, LastValue, 30, "manual analysis required")
    /\ lim = FullWindow

\* the JSON items of a response text, and the device ids they name
ResponseItems(text) ==
    UNION {{text[n].items[i] : i \in 1..Len(text[n].items)} :
              n \in {m \in 1..Len(text) : text[m].t = "json"}}
NamedIds(text) == {item.device_id : item \in {x \in ResponseItems(text) : x.dict}}

\* the response was parsed and mapped: the call did not leave by the except
\* branch but stored its result in the cache
ResponseParsed ==
    /\ pc = "answered"
    /\ \E e \in cache : e.key = BatchCacheKey(LastBatch) /\ e.value = LastValue

BatchesOf(d) == {k \in 1..Len(dispatched) : d \in Keys(dispatched[k])}

\* the call of infer_root_cause is over: it returned or it raised
CallOver == pc \in {"done", "raised"}

\* C17: every batch infer_root_cause dispatches and every batch given to the
\* oracle holds at most MAX_BATCH_SIZE devices; no device is in two
\* dispatched batches and, the call over, every unresolved device has been
\* dispatched in exactly one; the returned list holds one result under the
\* id of each of them.
C17_Batching ==
    /\ \A k \in 1..Len(oracle_log) : Len(oracle_log[k]) <= MAX_BATCH_SIZE
    /\ \A k \in 1..Len(dispatched) :
          Len(dispatched[k]) >= 1 /\ Len(dispatched[k]) <= MAX_BATCH_SIZE
    /\ \A d \in Keys(llm_needed) : Cardinality(BatchesOf(d)) <= 1
    /\ CallOver => \A d \in Keys(llm_needed) : Cardinality(BatchesOf(d)) = 1
    /\ Returned => \A d \in Keys(llm_needed) : OutputCount(d) = 1

\* C18: the split of an oversize batch terminates: every recursive call is
\* made on a batch that is not empty and is smaller than the batch of its
\* caller, so the recursion never runs into RecursionError, and no empty
\* batch is given to the oracle.
C18_OversizeSplit ==
    /\ \A i \in 1..(Len(stack) - 1) :
          /\ stack[i + 1].devices_alerts # <<>>
          /\ Len(stack[i + 1].devices_alerts) < Len(stack[i].devices_alerts)
    /\ \A k \in 1..Len(oracle_log) : oracle_log[k] # <<>>
    /\ ~Raised

EntriesOf(list) == {list[i] : i \in 1..Len(list)}

\* the entry of the returned or pending results for device d is the one of a
\* failed oracle call
FailureEntry(e) ==
    /\ e.type = "AI_ERROR"
    /\ e.prob = 70
    /\ e.tier = 2
    /\ HasKeyword(e.reason, {"ai analysis failed"})

\* a step in which a call of _analyze_batch_with_llm made by the loop of
\* infer_root_cause returns the verdicts of the except branch
TopCallFails ==
    /\ pc = "batch"
    /\ Len(stack) = 1
    /\ pc' # "raised"
    /\ Len(stack') <= 1
    /\ last_call' # <<>>
    /\ last_call'[1].devices_alerts = Top.devices_alerts
    /\ FixedVerdicts(Top.devices_alerts, last_call'[1].value, 20, "ai analysis failed")

\* C19: when the oracle call of a batch fails (generate_content raises, the
\* response cannot be parsed, or wait_for_slot returns False), the devices
\* of that batch, and only they, get the failure verdict; every result
\* appended before (suppression, local rules, earlier batches) stays as it
\* was; and when unresolved devices remain the next batch is dispatched.
C19_FailureIsolation ==
    [][TopCallFails =>
          /\ EntriesOf(results) \subseteq EntriesOf(results')
          /\ \A e \in EntriesOf(results') \ EntriesOf(results) :
                e.id \in Keys(Top.devices_alerts) /\ FailureEntry(e)
          /\ \A d \in Keys(Top.devices_alerts) :
                \E e \in EntriesOf(results') \ EntriesOf(results) : e.id = d
          /\ IF batch_at + MAX_BATCH_SIZE < Len(llm_needed)
             THEN /\ pc' = "batch"
                  /\ Len(dispatched') = Len(dispatched) + 1
                  /\ stack' = <<CallFrame(dispatched'[Len(dispatched')])>>
                  /\ Keys(dispatched'[Len(dispatched')]) \cap Keys(Top.devices_alerts) = {}
             ELSE pc' = "done"]_vars

\* a call returned with the five devices of its first batch failed, the
\* device of its second batch answered by the oracle and a device decided
\* by a local rule
C19_Witness ==
    /\ Returned
    /\ Len(dispatched) = 2
    /\ \A d \in Keys(dispatched[1]) : \A e \in OutputOf(d) : FailureEntry(e)
    /\ \A d \in Keys(dispatched[2]) : \A e \in OutputOf(d) : e.reason = "oracle reason"
    /\ \E i \in 1..Len(output) : output[i].id \notin Keys(llm_needed)

\* how many times generate_content has been called for the batch b
Attempts(b) == Cardinality({k \in 1..Len(oracle_log) : oracle_log[k] = b})

\* the first run has just degraded the batch for which generate_content
\* raised last
DegradedAfterError ==
    /\ run = 1
    /\ last_error # <<>>
    /\ last_call # <<>>
    /\ last_call[1].devices_alerts = last_error[1].devices_alerts
    /\ FixedVerdicts(last_call[1].devices_alerts, last_call[1].value, 20,
                     "ai analysis failed")

\* C20: a batch for which generate_content raised a transient error (429)
\* is degraded only after generate_content has been called for it again; a
\* batch for which it raised a permanent error (400) is degraded after the
\* one call.
C20_RetryTransient ==
    DegradedAfterError =>
        IF last_error[1].error \in TransientErrors
        THEN Attempts(last_error[1].devices_alerts) > 1
        ELSE Attempts(last_error[1].devices_alerts) = 1

\* C21: a second run of infer_root_cause with the same topology and the
\* same msg_map, ended within the cache ttl of the start of the first,
\* returns the list the first run returned, in the same order, whatever the
\* oracle did in the two runs (the credential being configured from the
\* first run on).
C21_Determinism ==
    SecondCallWithinTtl => output = prev_output

\* the entry is the report of a degraded verdict: no credential, id missing
\* from the oracle's answer, or failed batch (slot timeout included)
DegradedEntry(e) ==
    e.reason \in {"API key not configured. Manual analysis required.",
                  "No analysis result from AI", "AI Analysis Failed"}

\* C22: in the list infer_root_cause returns, a device that received a
\* degraded verdict has probability 0.3 or lower and tier 3, below the 0.7
\* of a device the oracle classified as WARNING.
C22_DegradedBelowWarning ==
    Returned =>
        \A i \in 1..Len(output) :
            DegradedEntry(output[i]) =>
                /\ output[i].prob <= 30
                /\ output[i].tier = 3
                /\ output[i].prob < ProbTier("WARNING").prob

\* the call on top of the stack is about to ask for a slot that
\* wait_for_slot will refuse
SlotRefused == Dispatching /\ ~wait_for_slot(lim, now).ok

\* C23: when wait_for_slot returns False for a batch (the credential having
\* been configured, so that the call reaches line 410), the request window
\* and the daily counter stay as they were, the oracle is not called, no
\* entry is added to the cache, every device of the batch gets the WARNING
\* verdict of a failed batch, and the analysis goes on (the call returns to
\* its caller, which ends or dispatches the next batch).
C23_SlotTimeoutDegrades ==
    [][(SlotRefused /\ api_configured') =>
          /\ lim'.request_times = lim.request_times
          /\ lim'.daily_count = lim.daily_count
          /\ oracle_log' = oracle_log
          /\ cache' \subseteq cache
          /\ last_call' # <<>>
          /\ last_call'[1].devices_alerts = Top.devices_alerts
          /\ FixedVerdicts(Top.devices_alerts, last_call'[1].value, 20,
                           "ai analysis failed")
          /\ pc' \in {"batch", "done"}
          /\ (Len(stack) = 1 /\ batch_at + MAX_BATCH_SIZE < Len(llm_needed))
                => Len(dispatched') = Len(dispatched) + 1]_vars

\* a call returned after wait_for_slot refused both of its batches: no
\* oracle call, no request recorded, every unresolved device degraded
C23_Witness ==
    /\ Returned
    /\ Len(dispatched) = 2
    /\ oracle_log = <<>>
    /\ lim.request_times = DailySpent.request_times
    /\ lim.daily_count = DailySpent.daily_count
    /\ now >= T0 + 2 * Ds(wait_timeout)
    /\ \A i \in 1..Len(output) : output[i].reason = "AI Analysis Failed"

\* the cache holds an entry for the key of the batch on top of the stack,
\* younger than cache_ttl
CacheHolds == InCall /\ CacheLookup.found

\* C24: a configured call that finds an unexpired entry for the key of its
\* batch returns the value of that entry and leaves the limiter, the clock
\* and the list of oracle invocations as they were; and a step that calls
\* the oracle is one in which wait_for_slot returned True and whose request
\* was recorded at that moment, before the call.
C24_CacheShortCircuit ==
    [][/\ (CacheHolds /\ api_configured') =>
             /\ last_call' # <<>>
             /\ last_call'[1].devices_alerts = Top.devices_alerts
             /\ last_call'[1].value = CacheLookup.value
             /\ lim' = lim
             /\ now' = now
             /\ oracle_log' = oracle_log
       /\ oracle_log' # oracle_log =>
             /\ oracle_log' = Append(oracle_log, Top.devices_alerts)
             /\ wait_for_slot(lim, now).ok
             /\ lim'.request_times # <<>>
             /\ lim'.request_times[Len(lim'.request_times)] = now'
             /\ lim'.daily_count = wait_for_slot(lim, now).lim.daily_count + 1]_vars


\* the devices of msg_map the loop of infer_root_cause resolves itself: by
\* cascade or silent-failure suppression, or by a local rule (an empty
\* message list included)
ResolvedIds ==
    {msg_map[i].id : i \in {j \in 1..Len(msg_map) :
        Classified(topology, msg_map)[j].kind = "result"}}

BatchIds(batches) == UNION {Keys(batches[k]) : k \in 1..Len(batches)}
FrameIds == UNION {Keys(stack[k].devices_alerts) : k \in 1..Len(stack)}

\* C25: the devices the loop of infer_root_cause keeps for the oracle are
\* those it did not resolve; every batch dispatched, split or given to
\* the oracle is made of them; and when the loop resolves every device of
\* msg_map, infer_root_cause returns without an oracle call, leaving the
\* limiter, the clock and the cache as they were.
C25_OnlyUnresolvedReachOracle ==
    [][/\ pc = "infer" =>
             /\ Keys(llm_needed') = Keys(msg_map) \ ResolvedIds
             /\ ResolvedIds = Keys(msg_map) =>
                    /\ pc' = "done"
                    /\ Len(output') = Len(msg_map)
                    /\ stack' = <<>>
                    /\ dispatched' = <<>>
                    /\ UNCHANGED <<lim, cache, now, oracle_log>>
       /\ BatchIds(dispatched') \cup FrameIds' \subseteq Keys(llm_needed')
       /\ oracle_log' # oracle_log =>
             Keys(oracle_log'[Len(oracle_log')]) \subseteq Keys(llm_needed')]_vars

\* a call returned after one oracle call, in which one device was resolved
\* by the loop and another went to the oracle
C25_Witness ==
    /\ Returned
    /\ run = 1
    /\ Len(oracle_log) = 1
    /\ ResolvedIds # {}
    /\ Keys(msg_map) \ ResolvedIds # {}
    /\ Keys(oracle_log[1]) = Keys(msg_map) \ ResolvedIds

\* every id that could be flagged: the devices, the parents they name, the
\* keys of msg_map
ParentCandidates ==
    ({topology[i].id : i \in 1..Len(topology)}
        \cup {topology[i].parent_id : i \in 1..Len(topology)}
        \cup Keys(msg_map)) \ {NoParent}

SeqRange(s) == {s[i] : i \in 1..Len(s)}

\* C26: _detect_silent_failures flags p exactly when p has a child in the
\* topology and no item in msg_map, and the children of p with a
\* connectivity-loss message are at least 2 and at least half of p's
\* children; the info of a flagged p counts those children, counts all the
\* children and lists exactly those children.
C26_SilentThreshold ==
    pc = "detected" =>
        /\ DOMAIN suspects =
              {p \in ParentCandidates :
                  /\ ChildrenOf(p) # {}
                  /\ p \notin Keys(msg_map)
                  /\ Cardinality(LossChildren(p)) >= 2
                  /\ 2 * Cardinality(LossChildren(p)) >= Cardinality(ChildrenOf(p))}
        /\ \A p \in DOMAIN suspects :
              /\ suspects[p].evidence_count = Cardinality(LossChildren(p))
              /\ suspects[p].total_children = Cardinality(ChildrenOf(p))
              /\ SeqRange(suspects[p].affected_children) = LossChildren(p)
              /\ Len(suspects[p].affected_children) = Cardinality(LossChildren(p))

\* SW1 was flagged on exactly two of its four children, and nothing else
C26_Witness ==
    /\ pc = "detected"
    /\ DOMAIN suspects = {"SW1"}
    /\ suspects["SW1"].evidence_count = 2
    /\ suspects["SW1"].total_children = 4

\* min(retry_base_delay * 2^k, retry_max_delay), in tenths of a second
BackoffBefore(k) == IF 2 * (2 ^ k) < 60 THEN Ds(2 * (2 ^ k)) ELSE Ds(60)

\* the failures the wrapper retries: their text holds 429, 503, "overloaded"
\* or "rate"
RetryableClass == {"429 Resource has been exhausted", "500 Failed to generate",
                   "Rate limit exceeded"}

\* what holds of the wrapper's frame at every moment of a call
RetryProtocol ==
    pc \in {"attempt", "returned", "raised"} =>
        LET frame == stack[1]
            n == frame.max_retries
            errors == frame.errors
        IN  \* at most n + 1 attempts, each with its own slot request
            /\ frame.calls <= frame.slots
            /\ frame.slots <= n + 1
            \* every call of the function has its own request, recorded at
            \* the clock reading at which the slot was obtained
            /\ stamps = oracle_log
            \* the sleeps so far
            /\ Len(frame.delays) = frame.attempt
            /\ frame.attempt <= n
            /\ \A k \in 0..(Len(frame.delays) - 1) :
                  frame.delays[k + 1] = BackoffBefore(k)
            \* a failure that is not retryable is the last of the call
            /\ \A k \in 1..(Len(errors) - 1) : errors[k] \in RetryableClass
            /\ pc = "attempt" =>
                  /\ Len(errors) = frame.attempt
                  /\ \A k \in 1..Len(errors) : errors[k] \in RetryableClass
            \* no attempt succeeded: the last error is raised
            /\ pc = "raised" =>
                  /\ errors # <<>>
                  /\ frame.slots = Len(errors)
                  /\ last_call = <<[raised |-> TRUE, value |-> errors[Len(errors)]]>>
                  /\ errors[Len(errors)] \notin RetryableClass \/ frame.attempt = n
            \* a result that is not None is in the cache
            /\ (pc = "returned" /\ ~frame.hit) =>
                  /\ ~last_call[1].raised
                  /\ frame.calls = frame.slots
                  /\ last_call[1].value # None =>
                        [key |-> RetryKey, value |-> last_call[1].value,
                         timestamp |-> stamps[Len(stamps)]] \in cache
            /\ frame.hit => (pc = "returned" /\ frame.slots = 0 /\ frame.calls = 0)

\* the call that begins is answered from the cache, with no attempt
AnsweredFromCache ==
    /\ pc' = "returned"
    /\ last_call' = <<[raised |-> FALSE, value |-> last_set[Len(last_set)].value]>>
    /\ stack'[1].slots = 0
    /\ stack'[1].calls = 0
    /\ UNCHANGED <<lim, now, oracle_log, stamps>>

WaitsForLock(t) ==
    \/ /\ threads[t].pc \in {"ws_acquire", "rr_acquire", "gs_acquire"}
       /\ lock # 0
    \/ /\ threads[t].pc \in {"gc_clean_acquire", "gc_acquire", "sc_acquire"}
       /\ cache_lock # 0

\* C28: no operation of the limiter holds _request_lock and _cache_lock
\* together, and a thread sleeping in wait_for_slot holds neither; the
\* holder of a lock is inside the block of that lock and waits for no
\* lock, so that the threads never deadlock; and the holder of _cache_lock
\* is inside a cache operation, never a thread waiting for a slot.
C28_LockIndependence ==
    /\ \A t \in Threads :
          /\ ~(lock = t /\ cache_lock = t)
          /\ threads[t].pc \in {"ws_acquire", "ws_sleep"} =>
                 lock # t /\ cache_lock # t
          /\ lock = t <=> threads[t].pc \in RequestSections
          /\ cache_lock = t <=> threads[t].pc \in CacheSections
          /\ WaitsForLock(t) =>
                 \E h \in Threads \ {t} : h \in {lock, cache_lock}
                                          /\ ~WaitsForLock(h)
    /\ (\E t \in Threads : threads[t].pc # "idle") => ENABLED NextLocks

\* a thread sleeps in wait_for_slot while another one is inside set_cache
C28_Witness ==
    \E t, u \in Threads :
        /\ threads[t].pc = "ws_sleep"
        /\ threads[u].pc = "sc_body"
        /\ cache_lock = u
        /\ lock = 0

\* every request recorded is still in the window and in the daily counter,
\* and every key stored is still in the cache (the clock stands still in
\* SpecConstruct: nothing expires)
NothingLost ==
    /\ Len(lim.request_times) = Len(stamps)
    /\ lim.daily_count = Len(stamps)
    /\ \A i \in 1..Len(last_set) : last_set[i].key \in CacheKeys(cache)

\* C29: whatever the interleaving of the threads that construct the
\* limiter, its state is initialised exactly once, and a construction that
\* overlaps or follows another resets neither the requests recorded nor the
\* cache entries stored.
C29_SingleInitialisation ==
    pc = "construct" =>
        /\ instance.inits <= 1
        /\ (\A t \in Threads : threads[t].pc \in {"idle", "ready"}) => NothingLost

\* a construction that follows a completed one, after a request was
\* recorded, returns at line 67 and loses nothing
SequentialConstruction ==
    /\ pc = "construct"
    /\ instance.inits = 1
    /\ stamps # <<>>
    /\ \E t \in Threads : threads[t].calls = 2 /\ threads[t].pc = "ready"
    /\ NothingLost

(***************************************************************************)
(* The requests recorded in a window of 60 s.                               *)
(***************************************************************************)
\* the most requests recorded inside one window of 60 s, stamps being the
\* times of all the requests recorded, oldest first
MostInWindow(times) ==
    Max({0} \cup {j - i + 1 : <<i, j>> \in
            {p \in (1..Len(times)) \X (1..Len(times)) :
                 p[1] <= p[2] /\ times[p[2]] - times[p[1]] <= Ds(60)}})

\* the requests recorded inside the 60 s that end now
InLastWindow(times, t) ==
    Cardinality({i \in 1..Len(times) : t - times[i] <= Ds(60)})

\* C30: with NThreads threads that repeat wait_for_slot and record_request,
\* no window of 60 s ever holds more than L + NThreads - 1 recorded
\* requests, L being floor(rpm x safety_margin); and a record_request that
\* takes the window above L is made by a thread since whose check another
\* request was recorded.
C30_BoundedOvershoot ==
    [][stamps' # stamps =>
          /\ MostInWindow(stamps') <= EffectiveLimit(rpm) + NThreads - 1
          /\ InLastWindow(stamps', now) > EffectiveLimit(rpm) =>
                 \E t \in Threads : /\ threads[t].pc = "true"
                                    /\ threads'[t].pc = "idle"
                                    /\ threads[t].seen < Len(stamps)]_vars

\* the 60 s that end now hold one request more than the limit, an older
\* request having left the window, and a thread has made a check since,
\* which failed
C30_Witness ==
    /\ pc = "overshoot"
    /\ InLastWindow(stamps, now) = EffectiveLimit(rpm) + 1
    /\ Len(stamps) > InLastWindow(stamps, now)
    /\ \E t \in Threads : /\ threads[t].pc = "idle"
                          /\ threads[t].calls >= 2
                          /\ threads[t].seen = Len(stamps)
=============================================================================
